---- MODULE Spec2Model ----
(***************************************************************************)
(* The unified-diff hunk engine of vscode-stgit (src/src/diff-mode.ts,     *)
(* src/src/git.ts): hunk parsing, the outward line search, apply/revert    *)
(* on the live document and stage/unstage on the index blob.               *)
(*                                                                         *)
(* A string is a sequence of one-character strings, so that startsWith,    *)
(* slice, split, join and parseInt are computed as the code computes them. *)
(***************************************************************************)
EXTENDS Integers, Sequences, FiniteSets, TLC

VARIABLES
    diff,     \* the diff view's document: a sequence of lines
    cursor,   \* editor.selection.start.line in the diff view
    doc,      \* the text of the live (work tree) document of the hunk's file
    index,    \* the git index for the hunk's path: [stages, blob]
    msg,      \* the message of the last info() call, "" when none
    last,     \* what the last patch command did (observation, not program state)
    call      \* the call under test of the pure-function specifications

vars == <<diff, cursor, doc, index, msg, last, call>>

----------------------------------------------------------------------------
(* Bounds of the model *)

MaxBody == 3      \* most lines of a hunk body
MaxDoc == 3       \* most lines of a target text
MaxStart == 2     \* largest start number of a hunk header
MaxText == 2      \* most lines of a HunkText given to the locator alone
MaxTarget == 4    \* most lines of a target given to the locator alone
MaxOps == 2       \* most patch commands of one run that change their target
MaxRuns == 2      \* Stage and Unstage commands issued in one run of SpecRace
MaxSplitBody == 4 \* most lines of the body of a hunk that is split
MaxToggles == 3   \* splitHunk commands of one run of SpecSplit

----------------------------------------------------------------------------
(* Strings *)

\* parseInt's NaN; no number of the model comes near it
NaN == -1000000

Digits == <<"0", "1", "2", "3", "4", "5", "6", "7", "8", "9">>

IsDigit(c) == \E i \in 1..10 : Digits[i] = c

DigitVal(c) == (CHOOSE i \in 1..10 : Digits[i] = c) - 1

RECURSIVE DigitsValue(_, _)
\* the value of the longest prefix of digits of s, continuing from acc
DigitsValue(s, acc) ==
    IF s = <<>> \/ ~IsDigit(Head(s)) THEN acc
    ELSE DigitsValue(Tail(s), acc * 10 + DigitVal(Head(s)))

\* parseInt(s): an optional sign, then the longest prefix of digits; NaN
\* when there is no digit (leading white space does not occur here)
ParseInt(s) ==
    LET neg  == s # <<>> /\ Head(s) = "-"
        body == IF s # <<>> /\ Head(s) \in {"-", "+"} THEN Tail(s) ELSE s
    IN  IF body = <<>> \/ ~IsDigit(Head(body)) THEN NaN
        ELSE IF neg THEN 0 - DigitsValue(body, 0) ELSE DigitsValue(body, 0)

RECURSIVE FormatNat(_)
\* String(n) of a natural number
FormatNat(n) ==
    IF n < 10 THEN <<Digits[n + 1]>>
    ELSE FormatNat(n \div 10) \o <<Digits[(n % 10) + 1]>>

\* s.startsWith(p)
StartsWith(s, p) == Len(s) >= Len(p) /\ SubSeq(s, 1, Len(p)) = p

\* s.slice(n)
Slice(s, n) == SubSeq(s, n + 1, Len(s))

RECURSIVE IndexFrom(_, _, _)
\* s.indexOf(c, i) for a one-character c, counted from 0; -1 when there is none
IndexFrom(s, c, i) ==
    IF i >= Len(s) THEN -1
    ELSE IF s[i + 1] = c THEN i
    ELSE IndexFrom(s, c, i + 1)

RECURSIVE SplitChar(_, _)
\* s.split(c) for a one-character separator c
SplitChar(s, c) ==
    LET Cut(k) == IF k < 0 THEN <<s>>
                  ELSE <<SubSeq(s, 1, k)>> \o SplitChar(SubSeq(s, k + 2, Len(s)), c)
    IN  Cut(IndexFrom(s, c, 0))

RECURSIVE JoinWith(_, _)
\* lines.join(sep)
JoinWith(lines, sep) ==
    IF lines = <<>> THEN <<>>
    ELSE IF Len(lines) = 1 THEN lines[1]
    ELSE lines[1] \o sep \o JoinWith(Tail(lines), sep)

RECURSIVE IndexOf(_, _, _)
\* s.indexOf(p, i), counted from 0; -1 when p does not occur from i on
IndexOf(s, p, i) ==
    IF i + Len(p) > Len(s) THEN -1
    ELSE IF SubSeq(s, i + 1, i + Len(p)) = p THEN i
    ELSE IndexOf(s, p, i + 1)

\* s.includes(p, from)
Includes(s, p, from) == IndexOf(s, p, from) >= 0

\* s.split("@@")[0]: the part of s before its first "@@", all of s if none
BeforeAtAt(s) ==
    LET Cut(k) == IF k < 0 THEN s ELSE SubSeq(s, 1, k)
    IN  Cut(IndexOf(s, <<"@", "@">>, 0))

\* What a line of a target holds
LineContent == {<<>>, <<"a">>, <<"b">>}

\* All sequences over S of length lo..hi
SeqsOf(S, lo, hi) == UNION {[1..n -> S] : n \in lo..hi}

----------------------------------------------------------------------------
(* Values the variables hold while a specification does not use them *)

NoMsg == <<>>

NoIndex == [stages |-> <<>>, blob |-> <<>>]

NoLast == [n |-> 0, ops |-> <<>>]

NoCall == [fn |-> "none"]

----------------------------------------------------------------------------
(* HunkText.fromSpec *)

NoHunkText ==
    [ok |-> FALSE, srcLine |-> 0, text |-> <<>>, linemap |-> <<>>,
     missingNewline |-> FALSE]

\* The body lines a side accepts: those starting with its marker or ' '
Accepted(hunkLines, marker) ==
    {i \in 1..Len(hunkLines) :
        StartsWith(hunkLines[i], <<marker>>) \/ StartsWith(hunkLines[i], <<" ">>)}

RECURSIVE SideText(_, _)
\* lines: every accepted body line without its first character, in order
SideText(hunkLines, marker) ==
    IF hunkLines = <<>> THEN <<>>
    ELSE LET s == Head(hunkLines)
             rest == SideText(Tail(hunkLines), marker)
         IN  IF StartsWith(s, <<marker>>) \/ StartsWith(s, <<" ">>)
             THEN <<Slice(s, 1)>> \o rest
             ELSE rest

RECURSIVE LineMapFrom(_, _, _)
\* The forEach over the body lines from a line on, n lines pushed so far:
\* lineMap.push(lines.length) comes first, then the line is pushed if the
\* side accepts it
LineMapFrom(hunkLines, marker, n) ==
    IF hunkLines = <<>> THEN <<>>
    ELSE LET s == Head(hunkLines)
             pushed == StartsWith(s, <<marker>>) \/ StartsWith(s, <<" ">>)
         IN  <<n>> \o LineMapFrom(Tail(hunkLines), marker,
                                  IF pushed THEN n + 1 ELSE n)

\* LineMap with the entry of a body line pushed after the line itself
LineMapAfterPush(hunkLines, marker) ==
    LET m == LineMapFrom(hunkLines \o << <<>> >>, marker, 0)
    IN  [i \in 1..Len(hunkLines) |-> m[i + 1]]

\* lineMap: lines.length at the moment body line i is visited
LineMap(hunkLines, marker) == LineMapFrom(hunkLines, marker, 0)

\* missingNewline: some accepted line is directly followed by a '\' line
MissingNewline(hunkLines, marker) ==
    \E i \in Accepted(hunkLines, marker) :
        i + 1 <= Len(hunkLines) /\ StartsWith(hunkLines[i + 1], <<"\\">>)

\* NumLines with a count that is left out read as 0
NumLinesOmittedZero(spec) ==
    LET parts == SplitChar(Slice(spec, 1), ",")
    IN  IF Len(parts) >= 2 THEN ParseInt(parts[2]) ELSE 0

\* the count a spec declares: parseInt(countStr ?? "1")
NumLines(spec) ==
    LET parts == SplitChar(Slice(spec, 1), ",")
    IN  IF Len(parts) >= 2 THEN ParseInt(parts[2]) ELSE 1

\* SrcLine without the step from line numbers counted from 1 to lines
\* counted from 0
SrcLineAsWritten(spec) == ParseInt(SplitChar(Slice(spec, 1), ",")[1])

\* the start a spec declares, less one: parseInt(lineStr) - 1
SrcLine(spec) ==
    LET n == ParseInt(SplitChar(Slice(spec, 1), ",")[1])
    IN  IF n = NaN THEN NaN ELSE n - 1

FromSpec(hunkLines, spec) ==
    IF spec = <<>> \/ spec[1] \notin {"-", "+"} THEN NoHunkText
    ELSE LET marker == spec[1]
             Made(lines) ==
                 IF NumLines(spec) = Len(lines)
                 THEN [ok |-> TRUE, srcLine |-> SrcLine(spec), text |-> lines,
                       linemap |-> LineMap(hunkLines, marker),
                       missingNewline |-> MissingNewline(hunkLines, marker)]
                 ELSE NoHunkText
         IN  Made(SideText(hunkLines, marker))

----------------------------------------------------------------------------
(* The locator: HunkText.matchesAtLine and HunkText.find *)

Min(a, b) == IF a < b THEN a ELSE b

\* MatchesAtLine that compares the first line of the text alone
MatchesFirstLineAt(text, lines, line) ==
    IF line < 0 \/ line + Len(text) > Len(lines) THEN FALSE
    ELSE text = <<>> \/ lines[line + 1] = text[1]

\* matchesAtLine: lines is the target, line a 0-based line number
MatchesAtLine(text, lines, line) ==
    IF line < 0 \/ line + Len(text) > Len(lines) THEN FALSE
    ELSE \A i \in 0..(Len(text) - 1) : lines[i + line + 1] = text[i + 1]

RECURSIVE FindFromDownFirst(_, _, _, _)
\* FindFrom that tries line + offs before line - offs
FindFromDownFirst(text, lines, line, offs) ==
    LET upLine   == line - offs
        downLine == line + offs
    IN  IF upLine < 0 /\ downLine >= Len(lines) THEN -1
        ELSE IF MatchesAtLine(text, lines, downLine) THEN downLine
        ELSE IF MatchesAtLine(text, lines, upLine) THEN upLine
        ELSE FindFromDownFirst(text, lines, line, offs + 1)

RECURSIVE FindFrom(_, _, _, _)
\* the loop of find, entered with offs
FindFrom(text, lines, line, offs) ==
    LET upLine   == line - offs
        downLine == line + offs
    IN  IF upLine < 0 /\ downLine >= Len(lines) THEN -1
        ELSE IF MatchesAtLine(text, lines, upLine) THEN upLine
        ELSE IF MatchesAtLine(text, lines, downLine) THEN downLine
        ELSE FindFrom(text, lines, line, offs + 1)

\* find on a target whose lines are `lines` (numLines = Len(lines)). The
\* headers of the model always carry a number for the start, so srcLine is
\* never NaN here.
Find(ht, lines) ==
    LET Search(line) == IF MatchesAtLine(ht.text, lines, line) THEN line
                        ELSE FindFrom(ht.text, lines, line, 1)
    IN  Search(Min(ht.srcLine, Len(lines) - 1))

\* findInText(lines)
FindInText(ht, lines) == Find(ht, lines)

\* The lines of a document whose text is `text`, as lineCount and lineAt
\* give them: the text split at its line feeds
DocLines(text) == SplitChar(text, "\n")

\* findInDoc(doc)
FindInDoc(ht, text) == Find(ht, DocLines(text))

----------------------------------------------------------------------------
(* DiffHeader.fromLine, Hunk.fromLine, DiffMode.findHunk *)

NoHeader == [ok |-> FALSE, fromPath |-> <<>>, toPath |-> <<>>]

\* s.indexOf("/"), counted from 0, -1 when there is none
IndexOfSlash(s) == IndexFrom(s, "/", 0)

\* stripPath of DiffHeader.fromLine
StripPath(path) ==
    LET Strip(s) == IF ~StartsWith(s, <<"/">>) THEN Slice(s, IndexOfSlash(s) + 1)
                    ELSE path
    IN  Strip(Slice(path, 4))

RECURSIVE ScanUp(_, _, _)
\* the nearest line at or above `line` (0-based) that starts with prefix, -1 if none
ScanUp(lines, line, prefix) ==
    IF line < 0 THEN -1
    ELSE IF StartsWith(lines[line + 1], prefix) THEN line
    ELSE ScanUp(lines, line - 1, prefix)

RECURSIVE ScanDown(_, _, _)
\* the nearest line at or below `line` (0-based) that starts with prefix, -1 if none
ScanDown(lines, line, prefix) ==
    IF line >= Len(lines) THEN -1
    ELSE IF StartsWith(lines[line + 1], prefix) THEN line
    ELSE ScanDown(lines, line + 1, prefix)

\* DiffHeader.fromLine(doc, line); lineAt past the last line throws, which
\* ends the command as a null header does
DiffHeaderFromLine(lines, line) ==
    LET At(start) ==
            IF start < 0 \/ start + 1 >= Len(lines) THEN NoHeader
            ELSE IF ~StartsWith(lines[start + 2], <<"+", "+", "+", " ">>) THEN NoHeader
            ELSE [ok |-> TRUE, fromPath |-> StripPath(lines[start + 1]),
                  toPath |-> StripPath(lines[start + 2])]
    IN  At(ScanUp(lines, line, <<"-", "-", "-", " ">>))

NoHunk ==
    [ok |-> FALSE, line |-> 0, fromText |-> NoHunkText, toText |-> NoHunkText,
     numHunkLines |-> 0]

RECURSIVE HunkLines(_, _)
\* the body lines from line i (0-based) on: up to the first line that is
\* empty or does not start with one of '+', '-', ' ', '\'
HunkLines(lines, i) ==
    IF i >= Len(lines) THEN <<>>
    ELSE LET s == lines[i + 1]
         IN  IF s = <<>> \/ s[1] \notin {"+", "-", " ", "\\"} THEN <<>>
             ELSE <<s>> \o HunkLines(lines, i + 1)

\* Hunk.fromLine(doc, line). A header with a single range spec makes
\* fromSpec throw on the missing one, which ends the command as null does.
HunkFromLine(lines, line) ==
    LET atStr == lines[line + 1]
        Made(hunkLines, fromText, toText) ==
            IF ~fromText.ok \/ ~toText.ok THEN NoHunk
            ELSE [ok |-> TRUE, line |-> line, fromText |-> fromText,
                  toText |-> toText, numHunkLines |-> Len(hunkLines) + 1]
        Parsed(specs, hunkLines) ==
            Made(hunkLines, FromSpec(hunkLines, specs[1]),
                 IF Len(specs) >= 2 THEN FromSpec(hunkLines, specs[2])
                 ELSE NoHunkText)
    IN  IF ~StartsWith(atStr, <<"@", "@", " ">>) \/ ~Includes(atStr, <<"@", "@">>, 3)
        THEN NoHunk
        ELSE Parsed(SplitChar(BeforeAtAt(Slice(atStr, 3)), " "),
                    HunkLines(lines, line + 1))

\* DiffMode.findHunk(doc, line)
FindHunk(lines, line) ==
    LET Below(down) == IF down >= 0 THEN HunkFromLine(lines, down) ELSE NoHunk
        Above(up, here) ==
            IF up >= 0 /\ here.ok /\ line < up + here.numHunkLines THEN here
            ELSE Below(ScanDown(lines, line + 1, <<"@", "@">>))
        From(up) == Above(up, IF up >= 0 THEN HunkFromLine(lines, up) ELSE NoHunk)
    IN  From(ScanUp(lines, line, <<"@", "@">>))

\* DiffMode.getHeader(hunk)
GetHeader(lines, cur, hunk) ==
    DiffHeaderFromLine(lines, IF hunk.ok THEN hunk.line ELSE cur)

\* gotoHunk(lineIncrement) from line cur: the line the selection ends on
RECURSIVE GotoHunkFrom(_, _, _, _)
GotoHunkFrom(lines, line, inc, cur) ==
    IF line < 0 \/ line >= Len(lines) THEN cur
    ELSE IF StartsWith(lines[line + 1], <<"@", "@">>) \/ line = Len(lines) - 1
         THEN line
         ELSE GotoHunkFrom(lines, line + inc, inc, cur)

GotoHunk(lines, cur, inc) == GotoHunkFrom(lines, cur + inc, inc, cur)

----------------------------------------------------------------------------
(* The diffs and target texts the patch commands are run on *)

\* The path of the one file of the work tree, and the only path in the index
FilePath == <<"f">>

\* The lines of a body that belong to a side, counted one by one
CountedFor(hunkLines, marker) ==
    Cardinality({i \in 1..Len(hunkLines) : hunkLines[i][1] \in {" ", marker}})

\* A count left out of a range spec ("-3" for "-3,1")
Omitted == -1

\* The range spec of a hunk header: marker, start and, unless left out, count
FormatSpec(marker, start, count) ==
    <<marker>> \o FormatNat(start)
        \o (IF count = Omitted THEN <<>> ELSE <<",">> \o FormatNat(count))

\* The lines of the bodies of the hunks that are applied and staged
HunkBodyLine == {<<" ", "a">>, <<"-", "a">>, <<"+", "b">>, <<"\\">>}

\* The "--- " and "+++ " lines of the file's section
FileHeader ==
    << <<"-", "-", "-", " ", "a", "/">> \o FilePath,
       <<"+", "+", "+", " ", "b", "/">> \o FilePath >>

\* A count as git writes it in a range spec: left out when it is 1
GitCount(n) == IF n = 1 THEN Omitted ELSE n

\* A hunk: the header with the counts of its body, as git writes them, and
\* the body
GitHunk(start, body) ==
    << <<"@", "@", " ">>
         \o FormatSpec("-", start, GitCount(CountedFor(body, "-")))
         \o <<" ">>
         \o FormatSpec("+", start, GitCount(CountedFor(body, "+")))
         \o <<" ", "@", "@">> >>
    \o body

\* Hunks Hunk.fromLine rejects: a header that declares two old lines over a
\* body of one, and a header without its closing "@@"
BrokenHunks ==
    { << <<"@", "@", " ", "-", "1", ",", "2", " ", "+", "1", " ", "@", "@">>,
         <<" ", "a">> >>,
      << <<"@", "@", " ", "-", "1", " ", "+", "1">>, <<" ", "a">> >> }

\* The diff view's lines: the file header, possibly a broken hunk, a hunk,
\* and the empty last line that follows the diff's final line feed
DiffView(pre, start, body) ==
    FileHeader \o pre \o GitHunk(start, body) \o << <<>> >>

\* The texts of the targets: up to MaxDoc lines, the last one empty when
\* the text ends with a line feed
Texts == {JoinWith(ls, <<"\n">>) : ls \in SeqsOf(LineContent, 1, MaxDoc)}

\* The diff views of one hunk, of every body and start within the bounds
PatchDiffs ==
    {DiffView(<<>>, start, body) :
        start \in 1..MaxStart, body \in SeqsOf(HunkBodyLine, 0, MaxBody)}

\* Hunks as `git diff` writes them for a change of a line "a" to "b": alone,
\* after a line of context, as an added line, as a removed line, and with
\* the old side's last line unterminated
SampleBodies ==
    { << <<"-", "a">>, <<"+", "b">> >>,
      << <<" ", "a">>, <<"-", "a">>, <<"+", "b">> >>,
      << <<"+", "b">> >>,
      << <<"-", "a">> >>,
      << <<"-", "a">>, <<"\\">>, <<"+", "b">> >> }

\* Diff views in which a hunk that does not parse may come before the hunk
SampleDiffs ==
    {DiffView(pre, 1, body) :
        pre \in {<<>>} \cup BrokenHunks, body \in SampleBodies}

\* The diff view of one hunk that replaces the line "two" by "TWO" between
\* the lines "one" and "three"
ExampleBody ==
    << <<" ", "o", "n", "e">>, <<"-", "t", "w", "o">>, <<"+", "T", "W", "O">>,
       <<" ", "t", "h", "r", "e", "e">> >>

ExampleDiff ==
    FileHeader \o << <<"@", "@", " ", "-", "1", ",", "3", " ", "+", "1", ",", "3",
                      " ", "@", "@">> >> \o ExampleBody \o << <<>> >>

\* Every diff view of the model
DiffViews == PatchDiffs \cup SampleDiffs \cup {ExampleDiff}

\* The lines the cursor is put on before a command: the first "@@" line of
\* the diff view and the line below it
CursorLines == {2, 3}

\* this.hunk and getHeader(this.hunk) for every diff view and cursor line.
\* Both depend on the diff view and the cursor alone; they are worked out
\* once for each and looked up by the commands.
Selected ==
    [d \in DiffViews |->
        [cur \in CursorLines |->
            LET With(hunk) == [hunk |-> hunk, header |-> GetHeader(d, cur, hunk)]
            IN  With(FindHunk(d, cur))]]

----------------------------------------------------------------------------
(* DiffMode.doApplyHunk: apply and revert on the live document *)

RECURSIVE OffsetOfLine(_, _)
\* the offset in text of position (line, 0); a line past the last one is
\* brought back to the end of the text, as the editor does with such a range
OffsetOfLine(text, line) ==
    LET After(k) == IF k < 0 THEN Len(text)
                    ELSE k + 1 + OffsetOfLine(SubSeq(text, k + 2, Len(text)), line - 1)
    IN  IF line = 0 THEN 0 ELSE After(IndexFrom(text, "\n", 0))

\* ReplaceRange that puts the new text in and leaves the old range
InsertAtLine(text, startLine, endLine, newText) ==
    SubSeq(text, 1, OffsetOfLine(text, startLine))
        \o newText
        \o SubSeq(text, OffsetOfLine(text, startLine) + 1, Len(text))

\* builder.replace(new Range((startLine, 0), (endLine, 0)), newText)
ReplaceRange(text, startLine, endLine, newText) ==
    SubSeq(text, 1, OffsetOfLine(text, startLine))
        \o newText
        \o SubSeq(text, OffsetOfLine(text, endLine) + 1, Len(text))

\* Sides that never swaps
SidesAsWritten(hunk, swap) == [from |-> hunk.fromText, to |-> hunk.toText]

\* [fromText, toText] of doApplyHunk and of stageOrUnstageHunk
Sides(hunk, swap) ==
    IF swap THEN [from |-> hunk.toText, to |-> hunk.fromText]
    ELSE [from |-> hunk.fromText, to |-> hunk.toText]

\* ApplyToDoc that does not look for toText when fromText is not found
ApplyToDocUnchecked(hunk, text, reverse) ==
    LET Patched(fromText, toText, matchLine) ==
            IF matchLine < 0
            THEN [res |-> "notfound", match |-> matchLine, text |-> text]
            ELSE [res |-> "edited", match |-> matchLine,
                  text |-> ReplaceRange(
                      text, matchLine, matchLine + Len(fromText.text),
                      JoinWith(toText.text, <<"\n">>)
                          \o (IF toText.missingNewline \/ Len(toText.text) = 0
                              THEN <<>> ELSE <<"\n">>))]
        With(sides) == Patched(sides.from, sides.to, FindInDoc(sides.from, text))
    IN  With(Sides(hunk, reverse))

\* doApplyHunk from findInDoc on: what is reported and the text left
ApplyToDoc(hunk, text, reverse) ==
    LET Patched(fromText, toText, matchLine) ==
            IF matchLine < 0
            THEN [res |-> IF FindInDoc(toText, text) # -1 THEN "already"
                          ELSE "notfound",
                  match |-> matchLine, text |-> text]
            ELSE [res |-> "edited", match |-> matchLine,
                  text |-> ReplaceRange(
                      text, matchLine, matchLine + Len(fromText.text),
                      JoinWith(toText.text, <<"\n">>)
                          \o (IF toText.missingNewline \/ Len(toText.text) = 0
                              THEN <<>> ELSE <<"\n">>))]
        With(sides) == Patched(sides.from, sides.to, FindInDoc(sides.from, text))
    IN  With(Sides(hunk, reverse))

\* The message info() shows for a result, none when nothing is reported
ApplyMsg(res) ==
    CASE res = "already"  -> <<"Patch already applied!">>
      [] res = "notfound" -> <<"Failed to find text to patch">>
      [] res = "nodoc"    -> <<"Failed to find file to patch">>
      [] OTHER            -> NoMsg

\* One more entry in the record of the last commands: the command just run
\* and, when that one changed its target, the command before it; n counts
\* the commands that changed their target
Logged(entry) ==
    [n |-> IF entry.res = "edited" THEN last.n + 1 ELSE last.n,
     ops |-> IF last.ops # <<>> /\ last.ops[Len(last.ops)].res = "edited"
             THEN <<last.ops[Len(last.ops)], entry>> ELSE <<entry>>]

\* doApplyHunk(opts) with this.hunk and its header looked up, the cursor on
\* line cur: without a hunk nothing happens; without a header no document is
\* found; a path with no file makes openTextDocument throw
ApplyFound(cur, hunk, header, reverse) ==
    LET Done(res, r) ==
            /\ cursor' = IF res = "nohunk" THEN cur
                         ELSE IF res = "edited" THEN GotoHunk(diff, hunk.line, 1)
                         ELSE hunk.line
            /\ doc' = IF res = "edited" THEN r.text ELSE doc
            /\ msg' = IF ApplyMsg(res) # NoMsg THEN ApplyMsg(res) ELSE msg
            /\ last' = IF res = "nohunk" THEN last
                       ELSE Logged([op |-> IF reverse THEN "revert" ELSE "apply",
                                    res |-> res, hunk |-> hunk.line,
                                    match |-> r.match,
                                    before |-> doc, after |-> doc'])
        Core(r) ==
            Done(IF ~hunk.ok THEN "nohunk"
                 ELSE IF ~header.ok THEN "nodoc"
                 ELSE IF header.toPath # FilePath THEN "threw"
                 ELSE r.res, r)
    IN  Core(IF hunk.ok /\ header.ok /\ header.toPath = FilePath
             THEN ApplyToDoc(hunk, doc, reverse)
             ELSE [res |-> "none", match |-> -1, text |-> doc])

\* doApplyHunk(opts), run with the cursor on line cur of the diff view
DoApplyHunk(cur, reverse) ==
    LET On(sel) == ApplyFound(cur, sel.hunk, sel.header, reverse)
    IN  /\ last.n < MaxOps
        /\ On(Selected[diff][cur])
        /\ UNCHANGED <<diff, index, call>>

\* applyHunk and revertHunk, the cursor wherever the user has put it
ApplyHunk == \E cur \in CursorLines : DoApplyHunk(cur, FALSE)

RevertHunk == \E cur \in CursorLines : DoApplyHunk(cur, TRUE)

----------------------------------------------------------------------------
(* isUnmerged, updateIndex and DiffMode.stageOrUnstageHunk *)

\* The stages of the index entries `git ls-files -s` lists for a path, in
\* the order listed; the index holds entries for FilePath alone
StagesOf(idx, path) == IF path = FilePath THEN idx.stages ELSE <<>>

\* `git show :path` succeeds when the index has a stage 0 entry for the path
ShowFails(idx, path) == \A i \in 1..Len(StagesOf(idx, path)) : StagesOf(idx, path)[i] # 0

\* IsUnmerged with the comparison of the stage turned round
IsUnmergedAtStageZero(idx, path) ==
    StagesOf(idx, path) # <<>> /\ StagesOf(idx, path)[1] = 0

\* isUnmerged(path): the stage of the first entry listed, when it is not 0
IsUnmerged(idx, path) ==
    StagesOf(idx, path) # <<>> /\ StagesOf(idx, path)[1] # 0

\* updateIndex(path, {data}): the stage 0 entry of the path gets the blob
UpdateIndex(idx, data) == [idx EXCEPT !.blob = data]

RECURSIVE RemoveCR(_)
\* index.replace(/\r\n/g, '\n')
RemoveCR(s) ==
    IF s = <<>> THEN <<>>
    ELSE IF StartsWith(s, <<"\r", "\n">>) THEN <<"\n">> \o RemoveCR(Slice(s, 2))
    ELSE <<s[1]>> \o RemoveCR(Slice(s, 1))

\* lines.splice(matchLine, n, ...text)
Splice(lines, matchLine, n, text) ==
    SubSeq(lines, 1, matchLine) \o text \o SubSeq(lines, matchLine + n + 1, Len(lines))

\* lines.pop(); an empty array stays empty
Pop(lines) == IF lines = <<>> THEN <<>> ELSE SubSeq(lines, 1, Len(lines) - 1)

\* StageToBlob that splices at line 0 when the side to replace is not found
StageToBlobAnyway(hunk, blob, stage) ==
    LET usesCRLF == Includes(blob, <<"\r", "\n">>, 0)
        Joined(lines) ==
            JoinWith(lines, IF usesCRLF THEN <<"\r", "\n">> ELSE <<"\n">>)
        Patched(fromText, toText, lines, matchLine) ==
            [res |-> "edited", match |-> matchLine,
             text |-> Joined(Splice(lines, IF matchLine < 0 THEN 0 ELSE matchLine,
                                    Len(fromText.text), toText.text))]
        With(sides, lines) ==
            Patched(sides.from, sides.to, lines, FindInText(sides.from, lines))
    IN  With(Sides(hunk, ~stage), SplitChar(RemoveCR(blob), "\n"))

\* stageOrUnstageHunk from the split of the index blob on: what is reported
\* and the blob handed to updateIndex
StageToBlob(hunk, blob, stage) ==
    LET usesCRLF == Includes(blob, <<"\r", "\n">>, 0)
        Joined(lines) ==
            JoinWith(lines, IF usesCRLF THEN <<"\r", "\n">> ELSE <<"\n">>)
        Ended(fromText, toText, lines) ==
            IF fromText.missingNewline /\ ~toText.missingNewline
            THEN Append(lines, <<>>)
            ELSE IF toText.missingNewline /\ ~fromText.missingNewline
            THEN Pop(lines)
            ELSE lines
        Patched(fromText, toText, lines, matchLine) ==
            IF matchLine < 0
            THEN [res |-> IF FindInText(toText, lines) # -1 THEN "already"
                          ELSE "notfound",
                  match |-> matchLine, text |-> blob]
            ELSE [res |-> "edited", match |-> matchLine,
                  text |-> Joined(Ended(fromText, toText,
                               Splice(lines, matchLine, Len(fromText.text),
                                      toText.text)))]
        With(sides, lines) ==
            Patched(sides.from, sides.to, lines, FindInText(sides.from, lines))
    IN  With(Sides(hunk, ~stage), SplitChar(RemoveCR(blob), "\n"))

\* StageMsg with the messages of doApplyHunk
StageMsgOfApply(res, path) ==
    CASE res = "already"   -> <<"Patch already applied!">>
      [] res = "notfound"  -> <<"Failed to find text to patch">>
      [] res = "unmerged"  -> <<"'">> \o path \o <<"' is unmerged">>
      [] res = "untracked" -> <<"'">> \o path \o <<"' is not under version control">>
      [] OTHER             -> NoMsg

\* The message info() shows for a result of stageOrUnstageHunk
StageMsg(res, path) ==
    CASE res = "already"   -> <<"Patch already staged!">>
      [] res = "notfound"  -> <<"Failed to find text to patch">>
      [] res = "unmerged"  -> <<"'">> \o path \o <<"' is unmerged">>
      [] res = "untracked" -> <<"'">> \o path \o <<"' is not under version control">>
      [] OTHER             -> NoMsg

\* stageOrUnstageHunk(opts) with this.hunk and its header looked up, the
\* cursor on line cur: without a hunk or a header nothing happens
StageFound(cur, hunk, header, stage) ==
    LET Done(res, r) ==
            /\ cursor' = IF res \in {"nohunk", "unmerged", "untracked"} THEN cur
                         ELSE IF res = "edited" THEN GotoHunk(diff, hunk.line, 1)
                         ELSE hunk.line
            /\ index' = IF res = "edited" THEN UpdateIndex(index, r.text) ELSE index
            /\ msg' = IF StageMsg(res, header.toPath) # NoMsg
                      THEN StageMsg(res, header.toPath) ELSE msg
            /\ last' = IF res = "nohunk" THEN last
                       ELSE Logged([op |-> IF stage THEN "stage" ELSE "unstage",
                                    res |-> res, hunk |-> hunk.line,
                                    match |-> r.match,
                                    before |-> index.blob, after |-> index'.blob])
        Core(r) ==
            Done(IF ~hunk.ok \/ ~header.ok THEN "nohunk"
                 ELSE IF ~ShowFails(index, header.toPath) THEN r.res
                 ELSE IF IsUnmerged(index, header.toPath) THEN "unmerged"
                 ELSE "untracked", r)
    IN  Core(IF hunk.ok /\ header.ok /\ ~ShowFails(index, header.toPath)
             THEN StageToBlob(hunk, index.blob, stage)
             ELSE [res |-> "none", match |-> -1, text |-> index.blob])

\* StageOrUnstageHunk that writes the blob to the file's document as well
StageOrUnstageInDocument(cur, stage) ==
    LET On(sel) == StageFound(cur, sel.hunk, sel.header, stage)
    IN  /\ last.n < MaxOps
        /\ On(Selected[diff][cur])
        /\ doc' = IF index' # index THEN index'.blob ELSE doc
        /\ UNCHANGED <<diff, call>>

\* stageOrUnstageHunk(opts), run with the cursor on line cur of the diff
\* view. reloadIndexAndWorkTree refreshes the file lists of the StGit view,
\* which are no part of this state; the diff view is left as it is.
StageOrUnstageHunk(cur, stage) ==
    LET On(sel) == StageFound(cur, sel.hunk, sel.header, stage)
    IN  /\ last.n < MaxOps
        /\ On(Selected[diff][cur])
        /\ UNCHANGED <<diff, doc, call>>

StageHunk == \E cur \in CursorLines : StageOrUnstageHunk(cur, TRUE)

UnstageHunk == \E cur \in CursorLines : StageOrUnstageHunk(cur, FALSE)

----------------------------------------------------------------------------
(* SpecParse: HunkText.fromSpec on every body and range spec within bounds *)

\* The lines a hunk body is made of: context, removed, added, no-newline
BodyLine ==
    {<<" ", "a">>, <<"-", "a">>, <<"-", "b">>, <<"+", "a">>, <<"+", "b">>,
     <<"\\">>}

Bodies == SeqsOf(BodyLine, 0, MaxBody)

InitParse ==
    /\ diff = <<>> /\ cursor = 0 /\ doc = <<>> /\ index = NoIndex
    /\ msg = NoMsg /\ last = NoLast
    /\ \E hunkLines \in Bodies, marker \in {"-", "+"}, start \in 0..MaxStart,
          count \in {Omitted} \cup 0..MaxBody :
          call = [fn |-> "fromSpec", hunkLines |-> hunkLines, marker |-> marker,
                  start |-> start, count |-> count,
                  spec |-> FormatSpec(marker, start, count),
                  done |-> FALSE, ret |-> NoHunkText]

CallFromSpec ==
    /\ call.fn = "fromSpec" /\ ~call.done
    /\ call' = [call EXCEPT !.done = TRUE,
                            !.ret = FromSpec(call.hunkLines, call.spec)]
    /\ UNCHANGED <<diff, cursor, doc, index, msg, last>>

NextParse == CallFromSpec

SpecParse == InitParse /\ [][NextParse]_vars

\* What a range spec declares: the written count, 1 when it is left out
Declared(count) == IF count = Omitted THEN 1 ELSE count

\* C1: fromSpec returns a HunkText exactly when the number of body lines
\* starting with ' ' or the side's marker equals the count the spec declares,
\* and null otherwise; '\' lines are never counted.
C1_CountInvariant ==
    (call.fn = "fromSpec" /\ call.done) =>
        /\ call.ret.ok <=>
             CountedFor(call.hunkLines, call.marker) = Declared(call.count)
        /\ call.ret.ok =>
             Len(call.ret.text) =
                 Cardinality({i \in 1..Len(call.hunkLines) :
                                 call.hunkLines[i][1] # "\\"
                                 /\ call.hunkLines[i][1] \in {" ", call.marker}})

\* C1 witness: a body with a '\' line after an accepted line parses, and a
\* body one line short of the declared count is rejected
C1_Witness ==
    /\ call.fn = "fromSpec" /\ call.done /\ call.ret.ok
    /\ call.count = 2 /\ Len(call.hunkLines) = 3
    /\ call.hunkLines[3] = <<"\\">>

C1_WitnessFail ==
    /\ call.fn = "fromSpec" /\ call.done /\ ~call.ret.ok
    /\ call.marker = "-" /\ call.count = 2
    /\ CountedFor(call.hunkLines, "-") = 1

----------------------------------------------------------------------------
(* SpecFind: the locator on every text, target and srcLine within bounds *)

InitFind ==
    /\ diff = <<>> /\ cursor = 0 /\ doc = <<>> /\ index = NoIndex
    /\ msg = NoMsg /\ last = NoLast
    /\ \E text \in SeqsOf(LineContent, 0, MaxText),
          lines \in SeqsOf(LineContent, 1, MaxTarget),
          srcLine \in -1..MaxTarget :
          call = [fn |-> "find", text |-> text, lines |-> lines,
                  srcLine |-> srcLine, inDoc |-> FALSE, done |-> FALSE, ret |-> 0]

\* findInText on the lines of a blob
CallFindInText ==
    /\ call.fn = "find" /\ ~call.done
    /\ call' = [call EXCEPT
           !.done = TRUE,
           !.ret = FindInText([NoHunkText EXCEPT !.ok = TRUE,
                                   !.srcLine = call.srcLine, !.text = call.text],
                              call.lines)]
    /\ UNCHANGED <<diff, cursor, doc, index, msg, last>>

\* findInDoc on the document whose text is the lines joined by line feeds
CallFindInDoc ==
    /\ call.fn = "find" /\ ~call.done
    /\ call' = [call EXCEPT
           !.done = TRUE, !.inDoc = TRUE,
           !.ret = FindInDoc([NoHunkText EXCEPT !.ok = TRUE,
                                  !.srcLine = call.srcLine, !.text = call.text],
                             JoinWith(call.lines, <<"\n">>))]
    /\ UNCHANGED <<diff, cursor, doc, index, msg, last>>

NextFind == CallFindInText \/ CallFindInDoc

SpecFind == InitFind /\ [][NextFind]_vars

\* The positions at which text occurs in lines, line for line
Occurrences(text, lines) ==
    {p \in 0..(Len(lines) - 1) :
        /\ p + Len(text) <= Len(lines)
        /\ \A i \in 1..Len(text) : lines[p + i] = text[i]}

\* C2: find returns p >= 0 only if the text occurs at p, and -1 only if it
\* occurs nowhere; a block that occurs once, after k other lines, is found
\* at k whatever srcLine is.
C2_LocatorExact ==
    (call.fn = "find" /\ call.done) =>
        LET occ == Occurrences(call.text, call.lines)
        IN  /\ call.ret >= -1
            /\ call.ret >= 0 => call.ret \in occ
            /\ call.ret = -1 => occ = {}
            /\ \A k \in occ : occ = {k} => call.ret = k

\* C2 witness: a two-line block found after unrelated lines, away from srcLine
C2_Witness ==
    /\ call.fn = "find" /\ call.done
    /\ Len(call.text) = 2 /\ call.ret = 2 /\ call.srcLine = 0
    /\ Occurrences(call.text, call.lines) = {2}

Abs(n) == IF n < 0 THEN 0 - n ELSE n

\* C3: of several occurrences find returns the one nearest to
\* c = min(srcLine, lineCount - 1), the earlier one when two are equally near
C3_LocatorOrder ==
    (call.fn = "find" /\ call.done) =>
        LET occ == Occurrences(call.text, call.lines)
            c   == Min(call.srcLine, Len(call.lines) - 1)
        IN  /\ occ # {} => call.ret \in occ
            /\ \A p \in occ :
                   \/ Abs(call.ret - c) < Abs(p - c)
                   \/ Abs(call.ret - c) = Abs(p - c) /\ call.ret <= p

\* C3 witness: occurrences at c - 1 and c + 1, the earlier one returned
C3_Witness ==
    /\ call.fn = "find" /\ call.done
    /\ LET c == Min(call.srcLine, Len(call.lines) - 1)
       IN  /\ {c - 1, c + 1} \subseteq Occurrences(call.text, call.lines)
           /\ c \notin Occurrences(call.text, call.lines)
           /\ call.ret = c - 1

----------------------------------------------------------------------------
(* SpecPatch: the patch commands on a diff of one hunk. A run works on one *)
(* target: applyHunk and revertHunk on the live document, or stageHunk and *)
(* unstageHunk on the index.                                               *)

\* The blobs of the index: the target texts, with "\n" or with "\r\n"
Blobs == Texts \cup {JoinWith(ls, <<"\r", "\n">>) : ls \in SeqsOf(LineContent, 2, MaxDoc)}

\* The index: the file at stage 0 with a blob, the file absent, or the file
\* unmerged (stages 1 to 3, not all of them present in every conflict)
Indexes ==
    {[stages |-> <<0>>, blob |-> b] : b \in Blobs}
        \cup {[stages |-> st, blob |-> <<>>] :
                 st \in {<<>>, <<1, 2, 3>>, <<2, 3>>, <<1, 3>>}}

InitPatch ==
    /\ diff \in PatchDiffs
    /\ cursor = 2
    /\ msg = NoMsg /\ last = NoLast
    /\ \/ call = [fn |-> "document"] /\ doc \in Texts /\ index = NoIndex
       \/ call = [fn |-> "index"] /\ doc = <<>> /\ index \in Indexes

NextPatch ==
    \/ call.fn = "document" /\ ApplyHunk
    \/ call.fn = "document" /\ RevertHunk
    \/ call.fn = "index" /\ StageHunk
    \/ call.fn = "index" /\ UnstageHunk

SpecPatch == InitPatch /\ [][NextPatch]_vars

\* The latest command of the record, and the first of the recorded ones
Latest == last.ops[Len(last.ops)]

First == last.ops[1]

\* The hunk of a diff view of one hunk
TheHunk == Selected[diff][2].hunk

\* The side a command looks for and replaces, and the side it puts in
Replaced(op) ==
    IF op \in {"apply", "stage"} THEN TheHunk.fromText ELSE TheHunk.toText

PutIn(op) ==
    IF op \in {"apply", "stage"} THEN TheHunk.toText ELSE TheHunk.fromText

\* The lines of the target of a recorded command, as the command splits them
TargetLines(e) ==
    IF e.op \in {"apply", "revert"} THEN DocLines(e.before)
    ELSE SplitChar(RemoveCR(e.before), "\n")

\* The lines of a text, each ended by a line feed but possibly the last: a
\* text that ends with a line feed has no further, empty line
TextLines(text) ==
    LET Kept(ls) == IF ls[Len(ls)] = <<>> THEN SubSeq(ls, 1, Len(ls) - 1) ELSE ls
    IN  Kept(SplitChar(text, "\n"))

\* A side's missingNewline says what is so in a text where the side's lines
\* stand from line m on: it is set exactly when the side has lines and the
\* last of them is the last line of the text, with no line feed after it
FlagTrue(ht, text, m) ==
    ht.missingNewline <=>
        (Len(ht.text) > 0 /\ m + Len(ht.text) = Len(DocLines(text)))

\* C4 as stated: Apply followed by Revert of the same hunk leaves the
\* document exactly as it was before the Apply, for any hunk and document in
\* which fromText is found.
C4_ApplyRevertIdentity ==
    (Len(last.ops) = 2 /\ First.op = "apply" /\ Latest.op = "revert")
        => Latest.after = First.before

\* C4 amended: Apply followed by Revert leaves the document exactly as it
\* was when Revert finds toText at the line where Apply matched and each
\* side's missingNewline is true to the document the side is matched in.
C4_ApplyRevertIdentityInPlace ==
    (/\ Len(last.ops) = 2 /\ First.op = "apply" /\ Latest.op = "revert"
     /\ Latest.res = "edited" /\ Latest.match = First.match
     /\ FlagTrue(TheHunk.fromText, First.before, First.match)
     /\ FlagTrue(TheHunk.toText, Latest.before, Latest.match))
        => Latest.after = First.before

\* C4 witness: a revert that undoes an apply which changed the document and
\* its last line's line feed
C4_Witness ==
    /\ Len(last.ops) = 2 /\ First.op = "apply" /\ Latest.op = "revert"
    /\ Latest.res = "edited" /\ Latest.match = First.match
    /\ FlagTrue(TheHunk.fromText, First.before, First.match)
    /\ FlagTrue(TheHunk.toText, Latest.before, Latest.match)
    /\ TheHunk.fromText.missingNewline /\ ~TheHunk.toText.missingNewline
    /\ First.match = 1
    /\ Latest.after = First.before /\ First.after # First.before

\* C5 as stated: a second Apply of the same hunk right after a successful
\* Apply reports 'already applied' and makes no edit.
C5_SecondApplyAlreadyApplied ==
    (Len(last.ops) = 2 /\ First.op = "apply" /\ Latest.op = "apply")
        => /\ Latest.res = "already"
           /\ msg = <<"Patch already applied!">>
           /\ Latest.after = Latest.before

\* C5 amended: the second Apply reports 'already applied' and makes no edit
\* exactly when, in the document the first Apply left, fromText occurs
\* nowhere and toText occurs somewhere; where fromText still occurs the
\* hunk is applied once more.
C5_SecondApplyByOccurrence ==
    (Len(last.ops) = 2 /\ First.op = "apply" /\ Latest.op = "apply")
        => LET lines == DocLines(First.after)
               gone  == Occurrences(TheHunk.fromText.text, lines) = {}
               there == Occurrences(TheHunk.toText.text, lines) # {}
           IN  /\ Latest.before = First.after
               /\ (gone /\ there) <=>
                      /\ Latest.res = "already"
                      /\ msg = <<"Patch already applied!">>
                      /\ Latest.after = Latest.before
               /\ ~gone <=> Latest.res = "edited"

\* C5 witness: the first Apply replaced the only occurrence of fromText, the
\* second one reports 'already applied'
C5_Witness ==
    /\ Len(last.ops) = 2 /\ First.op = "apply" /\ Latest.op = "apply"
    /\ First.after # First.before
    /\ Len(TheHunk.fromText.text) = 2
    /\ Latest.res = "already" /\ msg = <<"Patch already applied!">>
    /\ doc = First.after

\* C6 as stated: after a successful Apply or Revert with the match at line
\* m the document's lines are the former lines before m, the lines of
\* toText.text, and the former lines from m + fromText.text.length on,
\* whatever the missingNewline flags are.
C6_ReplacedRange ==
    (last.ops # <<>> /\ Latest.op \in {"apply", "revert"} /\ Latest.res = "edited")
        => LET former == TextLines(Latest.before)
               m      == Latest.match
               n      == Len(Replaced(Latest.op).text)
           IN  TextLines(Latest.after) =
                   SubSeq(former, 1, m) \o PutIn(Latest.op).text
                       \o SubSeq(former, m + n + 1, Len(former))

\* The last line of the lines put in and the line after the replaced range
\* are joined: the side put in has lines and missingNewline, and a line
\* follows the range
JoinsNext(e) ==
    /\ PutIn(e.op).missingNewline /\ Len(PutIn(e.op).text) > 0
    /\ e.match + Len(Replaced(e.op).text) < Len(TextLines(e.before))

\* C6 amended: the document's lines are the former lines before m, the
\* lines of toText.text and the former lines from m + fromText.text.length
\* on, unless toText has lines and missingNewline and a line follows the
\* range: then the last line put in and the line that follows are one line.
C6_ReplacedRangeOrJoined ==
    (last.ops # <<>> /\ Latest.op \in {"apply", "revert"} /\ Latest.res = "edited")
        => LET former == TextLines(Latest.before)
               m      == Latest.match
               n      == Len(Replaced(Latest.op).text)
               text   == PutIn(Latest.op).text
           IN  TextLines(Latest.after) =
                   IF JoinsNext(Latest)
                   THEN SubSeq(former, 1, m) \o SubSeq(text, 1, Len(text) - 1)
                            \o <<text[Len(text)] \o former[m + n + 1]>>
                            \o SubSeq(former, m + n + 2, Len(former))
                   ELSE SubSeq(former, 1, m) \o text
                            \o SubSeq(former, m + n + 1, Len(former))

\* C6 witness: a line replaced by another between two lines that stay
C6_Witness ==
    /\ last.ops # <<>> /\ Latest.op = "apply" /\ Latest.res = "edited"
    /\ Latest.match = 1 /\ Len(TextLines(Latest.before)) = 3
    /\ TheHunk.fromText.text = << <<"a">> >>
    /\ TheHunk.toText.text = << <<"b">> >>
    /\ ~JoinsNext(Latest)
    /\ Latest.after # Latest.before

\* C7: when the side to be replaced occurs nowhere in the target, Apply
\* and Revert make no edit of the document and Stage and Unstage do not
\* write the index: the target is the same before and after.
C7_NoMutationWhenNotFound ==
    (last.ops # <<>>
        /\ Occurrences(Replaced(Latest.op).text, TargetLines(Latest)) = {})
        => /\ Latest.res # "edited"
           /\ Latest.after = Latest.before
           /\ Latest.op \in {"apply", "revert"} => doc = Latest.before
           /\ Latest.op \in {"stage", "unstage"} => index.blob = Latest.before

\* C7 witness: Unstage on an index blob of three lines that holds neither
\* side of the hunk
C7_Witness ==
    /\ last.ops # <<>> /\ Latest.op = "unstage" /\ Latest.res = "notfound"
    /\ Len(TargetLines(Latest)) = 3
    /\ Len(TheHunk.toText.text) = 1
    /\ index.blob = Latest.before

\* The message of a failed locate: the patch is there already, or not found
FailureMsg(op, found) ==
    IF ~found THEN <<"Failed to find text to patch">>
    ELSE IF op \in {"apply", "revert"} THEN <<"Patch already applied!">>
    ELSE <<"Patch already staged!">>

\* C8: when the side to be replaced is not found in a target that could be
\* read, the command reports 'already applied' or 'already staged' exactly
\* when the other side occurs in the target, and 'Failed to find text to
\* patch' exactly when neither side does.
C8_FailureClassification ==
    (last.ops # <<>> /\ Latest.res \notin {"unmerged", "untracked"}
        /\ Occurrences(Replaced(Latest.op).text, TargetLines(Latest)) = {})
        => LET found ==
                   Occurrences(PutIn(Latest.op).text, TargetLines(Latest)) # {}
           IN  /\ Latest.res = "already" <=> found
               /\ Latest.res = "notfound" <=> ~found
               /\ msg = FailureMsg(Latest.op, found)

\* C8 witness: Revert on a document that holds fromText away from its line
\* and toText nowhere
C8_Witness ==
    /\ last.ops # <<>> /\ Latest.op = "revert" /\ Latest.res = "already"
    /\ Len(last.ops) = 1
    /\ Len(TheHunk.toText.text) > 0
    /\ Occurrences(TheHunk.fromText.text, DocLines(doc)) = {2}
    /\ msg = <<"Patch already applied!">>

\* C10: when the index has no stage 0 entry of the hunk's file, so that its
\* blob cannot be read, Stage and Unstage report "'<path>' is unmerged" if
\* the index holds an entry of another stage for the path and "'<path>' is
\* not under version control" otherwise, and do not write the index.
C10_StagingPreconditions ==
    (last.ops # <<>> /\ Latest.op \in {"stage", "unstage"}
        /\ \A i \in 1..Len(index.stages) : index.stages[i] # 0)
        => /\ msg = IF \E i \in 1..Len(index.stages) : index.stages[i] \in 1..3
                    THEN <<"'">> \o FilePath \o <<"' is unmerged">>
                    ELSE <<"'">> \o FilePath \o <<"' is not under version control">>
           /\ Latest.res \in {"unmerged", "untracked"}
           /\ Latest.after = Latest.before
           /\ index.blob = Latest.before

\* C10 witness: Stage with the file in conflict, only stages 2 and 3 there
C10_Witness ==
    /\ last.ops # <<>> /\ Latest.op = "stage" /\ Latest.res = "unmerged"
    /\ index.stages = <<2, 3>>
    /\ msg = <<"'">> \o FilePath \o <<"' is unmerged">>

----------------------------------------------------------------------------
(* Spec: the four patch commands on a diff view in which a hunk that does  *)
(* not parse may stand between the file header and the hunk, the document  *)
(* and the index blob of the file both at hand                             *)

\* Texts of the file: one line, two lines, a last line without line feed
SampleTexts ==
    { <<"a", "\n">>, <<"b", "\n">>, <<"a", "\n", "a", "\n">>, <<"a">> }

Init ==
    /\ diff \in SampleDiffs
    /\ cursor = 2
    /\ doc \in SampleTexts
    /\ index \in {[stages |-> <<0>>, blob |-> b] : b \in SampleTexts}
    /\ msg = NoMsg /\ last = NoLast /\ call = NoCall

Next == ApplyHunk \/ RevertHunk \/ StageHunk \/ UnstageHunk

Spec == Init /\ [][Next]_vars

\* The cursor, on line cur, is on or inside a hunk that Hunk.fromLine
\* rejects: the nearest "@@" line at or above it starts no hunk that parses
OnBrokenHunk(cur) ==
    /\ ScanUp(diff, cur, <<"@", "@">>) >= 0
    /\ ~HunkFromLine(diff, ScanUp(diff, cur, <<"@", "@">>)).ok

\* C9 as stated: with the cursor on or inside a hunk whose header does not
\* parse or whose counts do not match its body, Apply, Revert, Stage and
\* Unstage change neither the document nor the index.
C9_BrokenHunkUnusable ==
    [][(\A cur \in CursorLines : OnBrokenHunk(cur))
           => (doc' = doc /\ index' = index)]_vars

----------------------------------------------------------------------------
(* The line list of stageOrUnstageHunk between splice and join *)

\* The separator the blob of a recorded Stage or Unstage is joined with
SeparatorOf(e) ==
    IF Includes(e.before, <<"\r", "\n">>, 0) THEN <<"\r", "\n">> ELSE <<"\n">>

\* The line list of a recorded Stage or Unstage right after lines.splice
Spliced(e) ==
    Splice(TargetLines(e), e.match, Len(Replaced(e.op).text), PutIn(e.op).text)

\* C11 as stated: on Stage/Unstage, when fromText.missingNewline and not
\* toText.missingNewline one empty entry is appended to the line list; when
\* toText.missingNewline and not fromText.missingNewline the entry removed
\* from the end is an empty one, never a line with content; otherwise the
\* list is written as spliced.
C11_TrailingEntry ==
    (last.ops # <<>> /\ Latest.op \in {"stage", "unstage"} /\ Latest.res = "edited")
        => LET from == Replaced(Latest.op).missingNewline
               to   == PutIn(Latest.op).missingNewline
               list == Spliced(Latest)
           IN  /\ (from /\ ~to) =>
                      Latest.after = JoinWith(Append(list, <<>>), SeparatorOf(Latest))
               /\ (to /\ ~from) =>
                      /\ list # <<>> /\ list[Len(list)] = <<>>
                      /\ Latest.after =
                             JoinWith(SubSeq(list, 1, Len(list) - 1), SeparatorOf(Latest))
               /\ (from <=> to) =>
                      Latest.after = JoinWith(list, SeparatorOf(Latest))

----------------------------------------------------------------------------
(* The targets of the four commands, under Spec *)

\* C12: Stage and Unstage change the index blob of the hunk's file alone and
\* never the live document; Apply and Revert change the live document
\* alone and never write the index.
C12_SeparateTargets ==
    [][last' # last =>
          LET e == last'.ops[Len(last'.ops)]
          IN  /\ e.op \in {"stage", "unstage"} =>
                    /\ doc' = doc
                    /\ index'.stages = index.stages
                    /\ e.before = index.blob /\ e.after = index'.blob
              /\ e.op \in {"apply", "revert"} =>
                    /\ index' = index
                    /\ e.before = doc /\ e.after = doc']_vars

\* C12 witness: an Apply that changed the document and then a Stage that
\* changed the index blob, each leaving the other target as it was
C12_Witness ==
    /\ Len(last.ops) = 2 /\ First.op = "apply" /\ Latest.op = "stage"
    /\ Latest.res = "edited"
    /\ First.after # First.before /\ Latest.after # Latest.before
    /\ doc = First.after /\ index.blob = Latest.after
    /\ doc # index.blob

----------------------------------------------------------------------------
(* SpecRace: stageOrUnstageHunk as the steps between its awaits.  stageHunk
   and unstageHunk start the async function and return without awaiting it,
   so a command can be issued while an earlier one is still under way. *)

\* Diff views of two hunks of the file, at lines 1 and 3
RaceDiffs ==
    {FileHeader \o GitHunk(1, b1) \o GitHunk(3, b2) \o << <<>> >> :
        b1 \in {<< <<"-", "a">>, <<"+", "b">> >>},
        b2 \in {<< <<"-", "a">>, <<"+", "b">> >>, << <<"+", "b">> >>}}

\* The "@@" lines of a diff view, where the cursor is put before a command
HunkLinesOf(d) == {i \in 0..(Len(d) - 1) : StartsWith(d[i + 1], <<"@", "@">>)}

\* Index blobs of three lines
RaceTexts ==
    {JoinWith(ls, <<"\n">>) : ls \in [1..3 -> {<<"a">>, <<"b">>}]}

InitRace ==
    /\ diff \in RaceDiffs
    /\ cursor = 2
    /\ doc = <<>>
    /\ index \in {[stages |-> <<0>>, blob |-> t] : t \in RaceTexts}
                  \cup {[stages |-> <<1, 2, 3>>, blob |-> <<>>]}
    /\ msg = NoMsg
    /\ last = NoLast
    /\ call = [fn |-> "stageOrUnstageHunk", runs |-> <<>>]

\* A run of stageOrUnstageHunk: the await it is suspended at, this.hunk and
\* its header as read when the command was issued, the blob `git show`
\* returned and the new contents handed to updateIndex
RunOf(stage, hunk, header) ==
    [pc |-> IF hunk.ok /\ header.ok THEN "show" ELSE "done",
     res |-> IF hunk.ok /\ header.ok THEN "none" ELSE "nohunk",
     stage |-> stage, hunk |-> hunk, header |-> header,
     stdout |-> <<>>, data |-> <<>>]

\* stageHunk() / unstageHunk() with the cursor on line cur: the function
\* runs up to `await runCommand('git', ['show', ...])` and the command
\* returns
Begins(cur, stage) ==
    LET With(hunk) == RunOf(stage, hunk, GetHeader(diff, cur, hunk))
    IN  /\ Len(call.runs) < MaxRuns
        /\ call' = [call EXCEPT !.runs = Append(@, With(FindHunk(diff, cur)))]
        /\ cursor' = cur
        /\ UNCHANGED <<diff, doc, index, msg, last>>

StageHunkBegins == \E cur \in HunkLinesOf(diff) : Begins(cur, TRUE)

UnstageHunkBegins == \E cur \in HunkLinesOf(diff) : Begins(cur, FALSE)

\* `git show :path` of run i ends: on failure the run goes on to
\* `await isUnmerged(path)`; otherwise it works out the new contents from
\* the blob it was given and either reports and returns or calls
\* updateIndex, which runs up to its `await run('git', ['ls-files', ...])`
GitShowEnds ==
    \E i \in 1..Len(call.runs) :
        LET run == call.runs[i]
            Read(r) ==
                /\ call' = [call EXCEPT !.runs[i] =
                               [run EXCEPT !.pc = IF r.res = "edited" THEN "ls-files"
                                                  ELSE "done",
                                           !.res = r.res,
                                           !.stdout = index.blob,
                                           !.data = r.text]]
                /\ cursor' = run.hunk.line
                /\ msg' = IF StageMsg(r.res, run.header.toPath) # NoMsg
                          THEN StageMsg(r.res, run.header.toPath) ELSE msg
        IN  /\ run.pc = "show"
            /\ IF ShowFails(index, run.header.toPath)
               THEN /\ call' = [call EXCEPT !.runs[i].pc = "isUnmerged"]
                    /\ UNCHANGED <<cursor, msg>>
               ELSE Read(StageToBlob(run.hunk, index.blob, run.stage))
            /\ UNCHANGED <<diff, doc, index, last>>

\* `git ls-files -s` of isUnmerged ends in run i: the run reports and returns
IsUnmergedEnds ==
    \E i \in 1..Len(call.runs) :
        LET run == call.runs[i]
            Told(res) ==
                /\ call' = [call EXCEPT !.runs[i].pc = "done", !.runs[i].res = res]
                /\ msg' = StageMsg(res, run.header.toPath)
        IN  /\ run.pc = "isUnmerged"
            /\ Told(IF IsUnmerged(index, run.header.toPath) THEN "unmerged"
                    ELSE "untracked")
            /\ UNCHANGED <<diff, cursor, doc, index, last>>

\* `git ls-files -s` of updateIndex ends in run i (the file mode, which the
\* index of this model does not hold); `git hash-object -w --stdin` is
\* started
LsFilesEnds ==
    \E i \in 1..Len(call.runs) :
        /\ call.runs[i].pc = "ls-files"
        /\ call' = [call EXCEPT !.runs[i].pc = "hash-object"]
        /\ UNCHANGED <<diff, cursor, doc, index, msg, last>>

\* `git hash-object -w --stdin` ends in run i: the new contents are an
\* object of the repository; `git update-index --cacheinfo` is started
HashObjectEnds ==
    \E i \in 1..Len(call.runs) :
        /\ call.runs[i].pc = "hash-object"
        /\ call' = [call EXCEPT !.runs[i].pc = "update-index"]
        /\ UNCHANGED <<diff, cursor, doc, index, msg, last>>

\* `git update-index --cacheinfo` ends in run i: the index entry holds the
\* new contents; the run calls reloadIndexAndWorkTree and gotoNextHunk and
\* returns
UpdateIndexEnds ==
    \E i \in 1..Len(call.runs) :
        /\ call.runs[i].pc = "update-index"
        /\ index' = UpdateIndex(index, call.runs[i].data)
        /\ cursor' = GotoHunk(diff, cursor, 1)
        /\ call' = [call EXCEPT !.runs[i].pc = "done"]
        /\ UNCHANGED <<diff, doc, msg, last>>

NextRace ==
    \/ StageHunkBegins
    \/ UnstageHunkBegins
    \/ GitShowEnds
    \/ IsUnmergedEnds
    \/ LsFilesEnds
    \/ HashObjectEnds
    \/ UpdateIndexEnds

SpecRace == InitRace /\ [][NextRace]_vars

\* Run r has been given the index blob by `git show`
HasRead(r) ==
    r.pc \in {"ls-files", "hash-object", "update-index"}
        \/ (r.pc = "done" /\ r.res \in {"edited", "already", "notfound"})

\* The blob after the runs have been carried out one after the other, in
\* the order issued, on the blob the first one read
OneAfterTheOther(runs) ==
    LET After(r, blob) == StageToBlob(r.hunk, blob, r.stage).text
    IN  After(runs[2], After(runs[1], runs[1].stdout))

\* The consequence C13 draws, on its own: once both commands have written,
\* the index blob holds the change of both
C13_NoHunkLost ==
    (/\ Len(call.runs) = 2
     /\ \A i \in 1..2 : call.runs[i].pc = "done" /\ call.runs[i].res = "edited")
        => index.blob = OneAfterTheOther(call.runs)

\* C13 as stated: of two Stage/Unstage commands issued one after the other
\* on the same file, the second never reads the index blob before the first
\* has written it and returned, so that no staged hunk is lost.
C13_NoOverlap ==
    /\ \A i, j \in 1..Len(call.runs) :
           (i < j /\ HasRead(call.runs[j])) => call.runs[i].pc = "done"
    /\ C13_NoHunkLost

----------------------------------------------------------------------------
(* DiffProvider.fixHunkNumbering, applyHunkSplitting and provideDiff *)

\* A value that may be undefined: <<>> when it is, <<v>> when it is v
Undefined == <<>>

Defined(v) == <<v>>

RECURSIVE DigitRun(_, _)
\* the number of digits s holds from offset i on, up to the first other one
DigitRun(s, i) ==
    IF i < Len(s) /\ IsDigit(s[i + 1]) THEN 1 + DigitRun(s, i + 1) ELSE 0

\* /@@ [-]([0-9]*),[0-9]* [+]([0-9]*),[0-9]* @@(.*)/ tried at offset p of s:
\* the offsets at which the parts of the pattern end, -1 from the first part
\* on that does not match
HeaderMatchAt(s, p) ==
    LET Lit(i, lit) ==
            IF i >= 0 /\ StartsWith(Slice(s, i), lit) THEN i + Len(lit) ELSE -1
        Dig(i) == IF i < 0 THEN -1 ELSE i + DigitRun(s, i)
        Nine(i1, i2, i3, i4, i5, i6, i7, i8, i9) ==
            [ok |-> i9 >= 0, at |-> <<i1, i2, i3, i4, i5, i6, i7, i8, i9>>]
        Eight(i1, i2, i3, i4, i5, i6, i7, i8) ==
            Nine(i1, i2, i3, i4, i5, i6, i7, i8, Lit(i8, <<" ", "@", "@">>))
        Six(i1, i2, i3, i4, i5, i6) ==
            Eight(i1, i2, i3, i4, i5, i6, Lit(i6, <<",">>), Dig(Lit(i6, <<",">>)))
        Four(i1, i2, i3, i4) ==
            Six(i1, i2, i3, i4, Lit(i4, <<" ", "+">>), Dig(Lit(i4, <<" ", "+">>)))
        Two(i1, i2) == Four(i1, i2, Lit(i2, <<",">>), Dig(Lit(i2, <<",">>)))
    IN  Two(Lit(p, <<"@", "@", " ", "-">>), Dig(Lit(p, <<"@", "@", " ", "-">>)))

RECURSIVE HeaderMatchFrom(_, _)
\* s.match(REGEXP): the match at the first offset where there is one
HeaderMatchFrom(s, p) ==
    IF p > Len(s) THEN [ok |-> FALSE, at |-> <<>>]
    ELSE IF HeaderMatchAt(s, p).ok THEN HeaderMatchAt(s, p)
    ELSE HeaderMatchFrom(s, p + 1)

\* lines[hunkStart].match(REGEXP) with its groups: the two start numbers as
\* written and what follows the closing "@@"
HeaderMatch(s) ==
    LET Groups(m) ==
            IF ~m.ok THEN [ok |-> FALSE, fStart |-> <<>>, tStart |-> <<>>,
                           rest |-> <<>>, at |-> <<>>]
            ELSE [ok |-> TRUE,
                  fStart |-> SubSeq(s, m.at[1] + 1, m.at[2]),
                  tStart |-> SubSeq(s, m.at[5] + 1, m.at[6]),
                  rest |-> Slice(s, m.at[9]),
                  at |-> m.at]
    IN  Groups(HeaderMatchFrom(s, 0))

\* `${n}` of a number: parseInt gives no negative number here, so one below
\* zero is NaN, or NaN with a count added
FormatNumber(n) == IF n < 0 THEN <<"N", "a", "N">> ELSE FormatNat(n)

\* `@@ -${fStart},${fCnt} +${tStart},${tCnt} @@`
NumberedHeader(fStart, fCnt, tStart, tCnt) ==
    <<"@", "@", " ", "-">> \o FormatNumber(fStart) \o <<",">> \o FormatNumber(fCnt)
        \o <<" ", "+">> \o FormatNumber(tStart) \o <<",">> \o FormatNumber(tCnt)
        \o <<" ", "@", "@">>

\* The split marker applyHunkSplitting inserts
Marker == <<"@", "#">>

RECURSIVE CountToEnd(_, _, _, _)
\* The loop of fixHunkNumbering from line i on: the counts when it is done,
\* the line it is done at and whether that line is a split marker
CountToEnd(lines, i, fCnt, tCnt) ==
    LET c == IF i < Len(lines) /\ lines[i + 1] # <<>> THEN lines[i + 1][1]
             ELSE "undefined"
    IN  CASE c = " " -> CountToEnd(lines, i + 1, fCnt + 1, tCnt + 1)
          [] c = "+" -> CountToEnd(lines, i + 1, fCnt, tCnt + 1)
          [] c = "-" -> CountToEnd(lines, i + 1, fCnt + 1, tCnt)
          [] OTHER   -> [fCnt |-> fCnt, tCnt |-> tCnt, at |-> i,
                         marker |-> i < Len(lines) /\ lines[i + 1] = Marker]

\* FixHunkNumbering that gives the header made from a marker the starts of
\* the header above it
FixHunkNumberingSameStart(lines, hunkStart) ==
    LET Fixed(fStart, tStart, rest, n) ==
            [k \in 1..Len(lines) |->
                IF k = hunkStart + 1
                THEN NumberedHeader(fStart, n.fCnt, tStart, n.tCnt) \o rest
                ELSE IF n.marker /\ k = n.at + 1
                THEN NumberedHeader(fStart, 0, tStart, 0)
                ELSE lines[k]]
        With(m) ==
            IF ~m.ok THEN lines
            ELSE Fixed(ParseInt(m.fStart), ParseInt(m.tStart), m.rest,
                       CountToEnd(lines, hunkStart + 1, 0, 0))
    IN  With(HeaderMatch(lines[hunkStart + 1]))

\* fixHunkNumbering(lines, hunkStart): lines as the call leaves it
FixHunkNumbering(lines, hunkStart) ==
    LET Fixed(fStart, tStart, rest, n) ==
            [k \in 1..Len(lines) |->
                IF k = hunkStart + 1
                THEN NumberedHeader(fStart, n.fCnt, tStart, n.tCnt) \o rest
                ELSE IF n.marker /\ k = n.at + 1
                THEN NumberedHeader(IF fStart < 0 THEN fStart ELSE fStart + n.fCnt, 0,
                                    IF tStart < 0 THEN tStart ELSE tStart + n.tCnt, 0)
                ELSE lines[k]]
        With(m) ==
            IF ~m.ok THEN lines
            ELSE Fixed(ParseInt(m.fStart), ParseInt(m.tStart), m.rest,
                       CountToEnd(lines, hunkStart + 1, 0, 0))
    IN  With(HeaderMatch(lines[hunkStart + 1]))

\* lines.splice(n, 0, "@#"): NaN counts as 0, a start past the end as the end
InsertMarker(lines, n) ==
    LET At(k) == SubSeq(lines, 1, k) \o <<Marker>> \o SubSeq(lines, k + 1, Len(lines))
    IN  At(IF n < 0 THEN 0 ELSE IF n > Len(lines) THEN Len(lines) ELSE n)

RECURSIVE InsertMarkers(_, _)
\* splits.forEach(n => diffLines.splice(n, 0, "@#"))
InsertMarkers(lines, splits) ==
    IF splits = <<>> THEN lines
    ELSE InsertMarkers(InsertMarker(lines, Head(splits)), Tail(splits))

RECURSIVE FixFrom(_, _)
\* diffLines.forEach((s, i) => ...) from index i on: every line that starts
\* with "@@" when it is visited gets fixHunkNumbering
FixFrom(lines, i) ==
    IF i >= Len(lines) THEN lines
    ELSE FixFrom(IF StartsWith(lines[i + 1], <<"@", "@">>)
                 THEN FixHunkNumbering(lines, i) ELSE lines, i + 1)

\* splitSpec.split(';').map(x => parseInt(x))
ParseSplits(spec) ==
    LET parts == SplitChar(spec, ";")
    IN  [k \in 1..Len(parts) |-> ParseInt(parts[k])]

\* applyHunkSplitting without the return for a split spec that is not there
ApplyHunkSplittingAlways(text, splitSpec) ==
    JoinWith(FixFrom(InsertMarkers(SplitChar(text, "\n"),
                         ParseSplits(IF splitSpec = Undefined THEN <<>>
                                     ELSE splitSpec[1])), 0), <<"\n">>)

\* applyHunkSplitting(diff, splitSpec) for the diff text; splitSpec may be undefined
ApplyHunkSplitting(text, splitSpec) ==
    IF splitSpec = Undefined \/ splitSpec[1] = <<>> THEN text
    ELSE JoinWith(FixFrom(InsertMarkers(SplitChar(text, "\n"),
                                        ParseSplits(splitSpec[1])), 0), <<"\n">>)

\* (s + "=").split("=", 2): the key and the value of an argument
KeyValue(s) ==
    LET parts == SplitChar(s \o <<"=">>, "=")
    IN  [key |-> parts[1], value |-> parts[2]]

RECURSIVE MapGet(_, _, _)
\* new Map(args).get(key): the value of the last argument with the key
MapGet(args, key, k) ==
    IF k = 0 THEN Undefined
    ELSE IF KeyValue(args[k]).key = key THEN Defined(KeyValue(args[k]).value)
    ELSE MapGet(args, key, k - 1)

\* provideDiff(uri) for the fragment of uri, given what `git diff` prints
\* for the arguments the fragment names
ProvideDiff(fragment, gitDiff) ==
    LET args == SplitChar(fragment, ",")
    IN  ApplyHunkSplitting(gitDiff, MapGet(args, <<"s", "p", "l", "i", "t", "s">>, Len(args)))

----------------------------------------------------------------------------
(* DiffMode.splitHunk *)

\* ",splits=", the fixed part of /,splits=([0-9;]*)/
SplitsKey == <<",", "s", "p", "l", "i", "t", "s", "=">>

RECURSIVE SpecRun(_, _)
\* the number of characters of [0-9;] s holds from offset i on
SpecRun(s, i) ==
    IF i < Len(s) /\ (IsDigit(s[i + 1]) \/ s[i + 1] = ";")
    THEN 1 + SpecRun(s, i + 1) ELSE 0

\* frag.match(SPLITS): where the first match starts (-1 if there is none),
\* how long it is and its group
SplitsMatch(frag) ==
    LET At(k) ==
            IF k < 0 THEN [at |-> -1, len |-> 0, spec |-> <<>>]
            ELSE [at |-> k, len |-> Len(SplitsKey) + SpecRun(frag, k + Len(SplitsKey)),
                  spec |-> SubSeq(frag, k + Len(SplitsKey) + 1,
                                  k + Len(SplitsKey) + SpecRun(frag, k + Len(SplitsKey)))]
    IN  At(IndexOf(frag, SplitsKey, 0))

\* oldSplits: spec ? spec.split(";").map(x => parseInt(x)) : []
OldSplits(frag) ==
    LET Of(spec) == IF spec = <<>> THEN <<>> ELSE ParseSplits(spec)
    IN  Of(SplitsMatch(frag).spec)

\* oldSplits.includes(line)
IncludesLine(splits, line) == \E k \in 1..Len(splits) : splits[k] = line

RECURSIVE SortNumbers(_)
\* splits.sort((a, b) => a - b)
SortNumbers(ns) ==
    IF ns = <<>> THEN <<>>
    ELSE LET least == CHOOSE k \in 1..Len(ns) :
                          \A j \in 1..Len(ns) : ns[k] < ns[j] \/ (ns[k] = ns[j] /\ k <= j)
         IN  <<ns[least]>>
                 \o SortNumbers(SubSeq(ns, 1, least - 1) \o SubSeq(ns, least + 1, Len(ns)))

\* splits: oldSplits without line when it is one of them, else with line and
\* with every split after line moved down by one
Toggled(oldSplits, line) ==
    IF IncludesLine(oldSplits, line)
    THEN SelectSeq(oldSplits, LAMBDA x : x # line)
    ELSE SortNumbers([k \in 1..Len(oldSplits) |->
                         IF oldSplits[k] > line THEN oldSplits[k] + 1
                         ELSE oldSplits[k]] \o <<line>>)

\* frag.replace(SPLITS, "") + `,splits=${splits.join(";")}`
NewFragment(frag, splits) ==
    LET Without(m) ==
            IF m.at < 0 THEN frag
            ELSE SubSeq(frag, 1, m.at) \o Slice(frag, m.at + m.len)
    IN  Without(SplitsMatch(frag)) \o SplitsKey
            \o JoinWith([k \in 1..Len(splits) |-> FormatNumber(splits[k])], <<";">>)

\* The bodies of the hunks that are split, as `git diff` writes them: at
\* least one changed line; removed lines before added ones; a "\" line only
\* after the last line of a side, so that added lines alone may follow it
AsGitWrites(b) ==
    /\ \E i \in 1..Len(b) : b[i][1] \in {"-", "+"}
    /\ \A i \in 1..(Len(b) - 1) : ~(b[i][1] = "+" /\ b[i + 1][1] = "-")
    /\ \A i \in 1..Len(b) :
           b[i][1] = "\\" =>
               /\ i > 1 /\ b[i - 1][1] # "\\"
               /\ b[i - 1][1] \in {" ", "+"} => i = Len(b)
               /\ b[i - 1][1] = "-" =>
                      \A j \in (i + 1)..Len(b) :
                          b[j][1] = "+" \/ (b[j][1] = "\\" /\ j = Len(b))

SplitBodies == {b \in SeqsOf(HunkBodyLine, 1, MaxSplitBody) : AsGitWrites(b)}

\* What `git diff` prints for the file: one hunk, or two
SplitDiffs ==
    {JoinWith(FileHeader \o GitHunk(start, body) \o << <<>> >>, <<"\n">>) :
        start \in 1..MaxStart, body \in SplitBodies}
    \cup {JoinWith(d, <<"\n">>) : d \in RaceDiffs}

\* The fragment of the URI openCurrentFileDiff opens: `file=${path}`
FileFragment == <<"f", "i", "l", "e", "=">> \o FilePath

\* The diff view of the file as first opened: the document holds what
\* provideDiff returns for the URI
InitSplit ==
    /\ call \in {[fn |-> "splitHunk", fragment |-> FileFragment, gitDiff |-> d] :
                    d \in SplitDiffs}
    /\ diff = DocLines(ProvideDiff(call.fragment, call.gitDiff))
    /\ cursor = 0
    /\ doc = <<>>
    /\ index = NoIndex
    /\ msg = NoMsg
    /\ last = NoLast

\* The checks of splitHunk before it toggles, with the cursor on line
\* `line`: the line lies in a hunk findHunk gives, from its header on, and
\* is no header unless it is a split
PassesChecks(line) ==
    LET Found(hunk) ==
            /\ hunk.ok /\ line >= hunk.line /\ ~(line >= line + hunk.numHunkLines)
            /\ StartsWith(diff[line + 1], <<"@", "@">>)
                   => IncludesLine(OldSplits(call.fragment), line)
    IN  Found(FindHunk(diff, line))

\* splitHunk(editor) with the cursor on line `line`, up to and with the
\* document of the new URI shown.  Where the code returns early nothing
\* changes, and the step is not taken.
SplitHunkAt(line) ==
    LET oldSplits == OldSplits(call.fragment)
        Shown(splits, frag) ==
            /\ call' = [call EXCEPT !.fragment = frag]
            /\ diff' = DocLines(ProvideDiff(frag, call.gitDiff))
            /\ cursor' = line
            /\ last' = Logged([op |-> IF IncludesLine(oldSplits, line) THEN "remove"
                                      ELSE "add",
                               res |-> "edited", line |-> line,
                               before |-> oldSplits, after |-> splits,
                               shown |-> diff, shows |-> diff'])
    IN  /\ last.n < MaxToggles
        /\ PassesChecks(line)
        /\ Shown(Toggled(oldSplits, line),
                 NewFragment(call.fragment, Toggled(oldSplits, line)))
        /\ UNCHANGED <<doc, index, msg>>

SplitHunk == \E line \in 0..(Len(diff) - 1) : SplitHunkAt(line)

NextSplit == SplitHunk

SpecSplit == InitSplit /\ [][NextSplit]_vars

----------------------------------------------------------------------------
(* The split list and the split diff text, under SpecSplit *)

\* The splits of the fragment of the diff view's URI
Splits == OldSplits(call.fragment)

\* C14 as stated: a split added at line x and toggled again at once gives
\* back the split set there was and the diff text there was, byte for byte,
\* also when other splits lie after x.
C14_SplitRoundTrip ==
    (/\ Len(last.ops) = 2
     /\ First.op = "add" /\ Latest.op = "remove" /\ Latest.line = First.line)
        => /\ Latest.after = First.before
           /\ Latest.shows = First.shown

\* C14 without splits after x: the round trip where every split there was
\* lies before x
C14_SplitRoundTripOfLast ==
    (/\ Len(last.ops) = 2
     /\ First.op = "add" /\ Latest.op = "remove" /\ Latest.line = First.line
     /\ \A k \in 1..Len(First.before) : First.before[k] < First.line)
        => /\ Latest.after = First.before
           /\ Latest.shows = First.shown

\* The start and the count a hunk header declares for its old (k = 1) or
\* new (k = 2) side; a count left out is 1
HeaderRange(s, k) ==
    LET Of(spec, comma) ==
            [start |-> ParseInt(Slice(spec, 1)),
             count |-> IF comma < 0 THEN 1 ELSE ParseInt(Slice(spec, comma + 1))]
        Kth(specs) ==
            IF Len(specs) < k THEN [start |-> NaN, count |-> NaN]
            ELSE Of(specs[k], IndexFrom(specs[k], ",", 0))
    IN  Kth(SplitChar(BeforeAtAt(Slice(s, 3)), " "))

\* C15 as stated: every hunk header of the diff text shown, as git wrote it
\* or made from a split marker, declares as its old count the number of " "
\* and "-" lines of its body and as its new count the number of " " and "+"
\* lines, the body being the lines up to the next header or the end of the
\* hunk; so Hunk.fromLine parses every hunk shown.
C15_SelfConsistentHeaders ==
    \A i \in HunkLinesOf(diff) :
        /\ HeaderRange(diff[i + 1], 1).count = CountedFor(HunkLines(diff, i + 1), "-")
        /\ HeaderRange(diff[i + 1], 2).count = CountedFor(HunkLines(diff, i + 1), "+")
        /\ HunkFromLine(diff, i).ok

\* The lines of what `git diff` printed, before any split
Raw == DocLines(call.gitDiff)

\* The headers git wrote, among the headers of the text shown: those on a
\* line that is no split
Originals == {i \in HunkLinesOf(diff) : ~IncludesLine(Splits, i)}

\* The header of Raw that the header on line i of the text shown, one of
\* Originals, was made from: the one of the same rank
RawHeaderOf(i) ==
    LET Ranked(heads, rank) ==
            CHOOSE r \in heads : Cardinality({q \in heads : q <= r}) = rank
    IN  Ranked(HunkLinesOf(Raw), Cardinality({o \in Originals : o <= i}))

\* The headers of the sub-hunks made from the hunk whose header is on line
\* i of the text shown: that header and the headers below it up to the next
\* one git wrote
SubHunks(i) ==
    LET Below(heads, origs) ==
            {j \in heads : j >= i /\ \A o \in origs : o <= i \/ o > j}
    IN  Below(HunkLinesOf(diff), Originals)

RECURSIVE SumOfCounts(_, _)
\* The counts the headers on the lines of S declare for side k, added up
SumOfCounts(S, k) ==
    IF S = {} THEN 0
    ELSE LET j == CHOOSE x \in S : TRUE
         IN  HeaderRange(diff[j + 1], k).count + SumOfCounts(S \ {j}, k)

\* C16 as stated: the old counts of the sub-hunks made from a hunk add up to
\* the old count of the header git wrote for it, and the new counts to its
\* new count.
C16_CountsConserved ==
    \A i \in Originals :
        /\ SumOfCounts(SubHunks(i), 1) = HeaderRange(Raw[RawHeaderOf(i) + 1], 1).count
        /\ SumOfCounts(SubHunks(i), 2) = HeaderRange(Raw[RawHeaderOf(i) + 1], 2).count

\* The header of SubHunks(i) next above the one on line j
Previous(i, j) ==
    LET In(sub) == CHOOSE p \in sub : p < j /\ \A q \in sub : q < j => q <= p
    IN  In(SubHunks(i))

\* C17: the first sub-hunk of a hunk keeps the old start and the new start
\* of the header git wrote, and every sub-hunk after it starts, on each
\* side, where the sub-hunk before it starts plus the count of that one.
C17_StartsCarriedForward ==
    LET Carried(range, before) == range.start = before.start + before.count
        Holds(i, sub, written) ==
            \A k \in {1, 2} :
                /\ HeaderRange(diff[i + 1], k).start = HeaderRange(written, k).start
                /\ \A j \in sub \ {i} :
                       Carried(HeaderRange(diff[j + 1], k),
                               HeaderRange(diff[Previous(i, j) + 1], k))
    IN  \A i \in Originals : Holds(i, SubHunks(i), Raw[RawHeaderOf(i) + 1])

\* C17 witness: a hunk split at two points, into three sub-hunks, the last
\* of which starts after the first on both sides
C17_Witness ==
    \E i \in Originals : \E j \in SubHunks(i) :
        /\ Cardinality(SubHunks(i)) = 3
        /\ \A k \in {1, 2} :
               HeaderRange(diff[j + 1], k).start > HeaderRange(diff[i + 1], k).start

\* Every split falls inside the body of a hunk of what git printed: the
\* k-th marker is put in front of a body line of a hunk
InsideBody ==
    \A k \in 1..Len(Splits) :
        \E h \in HunkLinesOf(Raw) :
            /\ h < Splits[k] - (k - 1)
            /\ Splits[k] - (k - 1) <= h + Len(HunkLines(Raw, h + 1))

\* A line of the form '@@ -a,n +b,m @@', a, n, b and m being numbers
IsNumberedHeader(s) ==
    LET Is(m) ==
            /\ m.ok /\ m.at[9] = Len(s)
            /\ m.at[2] > m.at[1] /\ m.at[4] > m.at[3]
            /\ m.at[6] > m.at[5] /\ m.at[8] > m.at[7]
    IN  Is(HeaderMatchAt(s, 0))

\* C18 as stated: with every split inside a hunk's body, the diff text
\* shown holds no "@#" marker line; the line of each split is a header
\* '@@ -a,n +b,m @@'.
C18_MarkersReplaced ==
    InsideBody =>
        /\ \A i \in 1..Len(diff) : diff[i] # Marker
        /\ \A k \in 1..Len(Splits) : IsNumberedHeader(diff[Splits[k] + 1])

\* The numbers of a list, as a set
Entries(ns) == {ns[k] : k \in 1..Len(ns)}

\* C19 for the toggles that pass the checks of splitHunk: the split list,
\* as the fragment holds it, is strictly increasing; a toggle on a line of
\* the list takes exactly that entry out and puts none in; a toggle on
\* another line L puts L in, leaves every entry below L as it is and adds
\* one to every entry above L.
C19_SplitList ==
    /\ \A k \in 1..(Len(Splits) - 1) : Splits[k] < Splits[k + 1]
    /\ last.ops # <<>> =>
           /\ Splits = Latest.after
           /\ Latest.op = "remove" =>
                  /\ Latest.line \in Entries(Latest.before)
                  /\ Entries(Latest.after) = Entries(Latest.before) \ {Latest.line}
                  /\ Len(Latest.after) = Len(Latest.before) - 1
           /\ Latest.op = "add" =>
                  /\ Latest.line \notin Entries(Latest.before)
                  /\ Entries(Latest.after)
                         = {b \in Entries(Latest.before) : b < Latest.line}
                               \cup {Latest.line}
                               \cup {b + 1 : b \in {c \in Entries(Latest.before) :
                                                        c > Latest.line}}
                  /\ Len(Latest.after) = Len(Latest.before) + 1

\* C19 as stated, with the toggle on a line of the list taking that entry
\* out whichever line of the list it is: the split list is as C19_SplitList
\* says, and splitHunk on any line of the list passes its checks and goes on
\* to the removal.
C19_SplitToggles ==
    /\ C19_SplitList
    /\ \A line \in Entries(Splits) : line < Len(diff) /\ PassesChecks(line)

\* C20: with no split set, and with the empty one of the fragment
\* "splits=" that is left when the last split is taken out, the diff text
\* shown is what `git diff` printed, byte for byte, and so is what
\* applyHunkSplitting returns for either.
C20_EmptySplitSetIdentity ==
    Splits = <<>> =>
        /\ diff = DocLines(call.gitDiff)
        /\ JoinWith(diff, <<"\n">>) = call.gitDiff
        /\ ApplyHunkSplitting(call.gitDiff, Undefined) = call.gitDiff
        /\ ApplyHunkSplitting(call.gitDiff, Defined(<<>>)) = call.gitDiff

\* C20 witness: the last split has been taken out again, the fragment ends
\* with "splits=", and the text that was shown with the split, its headers
\* renumbered, has given way to the text git printed
C20_Witness ==
    /\ Len(last.ops) = 2 /\ Latest.op = "remove" /\ Splits = <<>>
    /\ call.fragment = FileFragment \o SplitsKey
    /\ Latest.shown # DocLines(call.gitDiff)
    /\ \E i \in HunkLinesOf(Latest.shown) : IncludesLine(Latest.before, i)
    /\ diff = DocLines(call.gitDiff)

----------------------------------------------------------------------------
(* SpecHeader: Hunk.fromLine on headers '@@ -a,b +c,d @@', alone or with
   the text git puts after the closing "@@", over every body within bounds *)

\* What follows the closing "@@" of a header: nothing, or a section heading
HeaderRests == {<<>>, <<" ", "x">>}

InitHeader ==
    /\ cursor = 2 /\ doc = <<>> /\ index = NoIndex
    /\ msg = NoMsg /\ last = NoLast
    /\ \E a \in 0..MaxStart, b \in 0..MaxBody, c \in 0..MaxStart, d \in 0..MaxBody,
          rest \in HeaderRests, hunkLines \in Bodies :
          /\ diff = FileHeader \o <<NumberedHeader(a, b, c, d) \o rest>>
                        \o hunkLines \o << <<>> >>
          /\ call = [fn |-> "fromLine", a |-> a, b |-> b, c |-> c, d |-> d,
                     rest |-> rest, done |-> FALSE, ret |-> NoHunk]

\* Hunk.fromLine(doc, line) on the header line of the document
CallFromLine ==
    /\ call.fn = "fromLine" /\ ~call.done
    /\ call' = [call EXCEPT !.done = TRUE, !.ret = HunkFromLine(diff, cursor)]
    /\ UNCHANGED <<diff, cursor, doc, index, msg, last>>

NextHeader == CallFromLine

SpecHeader == InitHeader /\ [][NextHeader]_vars

\* C21: for a header '@@ -a,b +c,d @@' whose body parses, the sides have
\* fromText.srcLine + 1 = a, fromText.text.length = b, toText.srcLine + 1 = c
\* and toText.text.length = d, and the header written again from the sides
\* is the header that was read.
C21_HeaderRoundTrip ==
    (call.fn = "fromLine" /\ call.done /\ call.ret.ok) =>
        /\ call.ret.fromText.srcLine + 1 = call.a
        /\ Len(call.ret.fromText.text) = call.b
        /\ call.ret.toText.srcLine + 1 = call.c
        /\ Len(call.ret.toText.text) = call.d
        /\ NumberedHeader(call.ret.fromText.srcLine + 1, Len(call.ret.fromText.text),
                          call.ret.toText.srcLine + 1, Len(call.ret.toText.text))
               \o call.rest = diff[cursor + 1]

\* C21 witness: a parsed hunk whose four numbers all differ, one start
\* being 0
C21_Witness ==
    /\ call.fn = "fromLine" /\ call.done /\ call.ret.ok
    /\ call.a = 0 /\ call.b = 2 /\ call.c = 1 /\ call.d = 3
    /\ call.ret.fromText.srcLine = -1

\* ---------------------------------------------------------------------
\* The four commands on the example hunk. The document and the blob of the
\* index hold the lines "one", "two", "three", with or without a line feed
\* after the last of them.

ExampleLines == << <<"o", "n", "e">>, <<"t", "w", "o">>, <<"t", "h", "r", "e", "e">> >>

ExampleResult == << <<"o", "n", "e">>, <<"T", "W", "O">>, <<"t", "h", "r", "e", "e">> >>

ExampleTexts ==
    { JoinWith(ExampleLines, <<"\n">>), JoinWith(ExampleLines, <<"\n">>) \o <<"\n">> }

InitExample ==
    /\ diff = ExampleDiff
    /\ cursor = 2
    /\ doc \in ExampleTexts
    /\ index \in {[stages |-> <<0>>, blob |-> b] : b \in ExampleTexts}
    /\ msg = NoMsg /\ last = NoLast /\ call = NoCall

SpecExample == InitExample /\ [][Next]_vars

\* C22: on a document whose lines are "one", "two", "three", Apply of the
\* example hunk edits the document and leaves exactly the lines "one", "TWO",
\* "three"; Revert on that result edits it and leaves exactly the lines
\* "one", "two", "three".
C22_Example ==
    /\ diff = ExampleDiff
    /\ TheHunk.ok
    /\ \A k \in 1..Len(last.ops) :
          LET e == last.ops[k] IN
          /\ (e.op = "apply" /\ TextLines(e.before) = ExampleLines) =>
                (e.res = "edited" /\ TextLines(e.after) = ExampleResult)
          /\ (e.op = "revert" /\ TextLines(e.before) = ExampleResult) =>
                (e.res = "edited" /\ TextLines(e.after) = ExampleLines)

C22_Witness ==
    /\ Len(last.ops) = 2
    /\ First.op = "apply" /\ First.res = "edited"
    /\ TextLines(First.before) = ExampleLines
    /\ Latest.op = "revert" /\ Latest.res = "edited"
    /\ Latest.before = First.after
    /\ TextLines(Latest.after) = ExampleLines

\* ---------------------------------------------------------------------
\* C23, C24: the flag and the line map of a parsed side (SpecParse)

\* The last body line a side accepts, 0 when it accepts none
LastAccepted(hunkLines, marker) ==
    LET acc == Accepted(hunkLines, marker)
    IN  IF acc = {} THEN 0 ELSE CHOOSE i \in acc : \A j \in acc : j <= i

\* C23 as stated: missingNewline of a parsed side is true exactly when the
\* body line directly after the last line accepted for the side starts with
\* '\'; a '\' line after an earlier accepted line does not set the flag.
C23_MissingNewlineAtLast ==
    (call.fn = "fromSpec" /\ call.done /\ call.ret.ok) =>
        LET n == LastAccepted(call.hunkLines, call.marker)
        IN  call.ret.missingNewline <=>
                /\ n > 0
                /\ n + 1 <= Len(call.hunkLines)
                /\ StartsWith(call.hunkLines[n + 1], <<"\\">>)

\* C24: the lineMap of a parsed side has one entry per body line, lines of
\* the other side and '\' lines included; the entry of a body line is the
\* number of lines the side accepts among the body lines before it; the
\* entries never decrease and lie between 0 and the number of lines of
\* the side.
C24_LineMapShape ==
    (call.fn = "fromSpec" /\ call.done /\ call.ret.ok) =>
        LET m == call.ret.linemap
            body == call.hunkLines
        IN  /\ Len(m) = Len(body)
            /\ \A i \in 1..Len(body) :
                  /\ m[i] = Cardinality({j \in 1..(i - 1) :
                                            body[j][1] \in {" ", call.marker}})
                  /\ m[i] >= 0 /\ m[i] <= Len(call.ret.text)
                  /\ i > 1 => m[i - 1] <= m[i]

\* C24 witness: a parsed side whose body holds a line of the other side and
\* a '\' line, each with an entry of its own
C24_Witness ==
    /\ call.fn = "fromSpec" /\ call.done /\ call.ret.ok
    /\ call.marker = "-"
    /\ call.hunkLines = << <<"-", "a">>, <<"\\">>, <<"+", "b">> >>
    /\ call.ret.linemap = <<0, 1, 1>>

\* ---------------------------------------------------------------------
\* SpecFiles: the commands on a diff view of two files, f and g, with two
\* hunks each, as git diff writes it when no file is named. The first hunk of
\* each file removes and adds lines whose own text starts with "-- " or
\* "++ ", which the diff shows as "--- a" and "+++ b".

OtherPath == <<"g">>

\* The lines before the hunks of a file: "diff --git", "--- " and "+++ "
FileSection(path) ==
    << <<"d", "i", "f", "f", " ", "-", "-", "g", "i", "t", " ", "a", "/">> \o path
           \o <<" ", "b", "/">> \o path,
       <<"-", "-", "-", " ", "a", "/">> \o path,
       <<"+", "+", "+", " ", "b", "/">> \o path >>

FilesBodyLine ==
    {<<" ", "a">>, <<"-", "a">>, <<"+", "b">>,
     <<"-", "-", "-", " ", "a">>, <<"+", "+", "+", " ", "b">>}

FilesBodies == SeqsOf(FilesBodyLine, 1, 2)

\* The bodies of the first hunk of the second file
OtherBodies ==
    { << <<"-", "a">> >>, << <<"-", "-", "-", " ", "a">>, <<"+", "+", "+", " ", "b">> >> }

\* The diff view of two files and the line the second file's section is on
FilesDiff(b1, b2) ==
    LET first == FileSection(FilePath) \o GitHunk(1, b1)
                     \o GitHunk(3, << <<"-", "a">>, <<"+", "b">> >>)
    IN  [lines |-> first \o FileSection(OtherPath) \o GitHunk(1, b2)
                       \o GitHunk(3, << <<"-", "a">>, <<"+", "b">> >>)
                       \o << <<>> >>,
         second |-> Len(first)]

InitFiles ==
    /\ cursor = 0
    /\ doc = <<"a", "\n", "a", "\n">>
    /\ index = [stages |-> <<0>>, blob |-> <<"a", "\n", "a", "\n">>]
    /\ msg = NoMsg /\ last = NoLast
    /\ \E b1 \in FilesBodies, b2 \in OtherBodies :
          /\ diff = FilesDiff(b1, b2).lines
          /\ call = [fn |-> "getHeader", second |-> FilesDiff(b1, b2).second,
                     ran |-> FALSE, hunk |-> NoHunk, header |-> NoHeader]

\* A command run with the cursor on line cur: this.hunk, then getHeader(hunk)
\* inside getSourceDoc or stageOrUnstageHunk; the hunk and the header the
\* command went on with are kept in call
CommandAt(cur, op) ==
    LET Run(hunk, header) ==
            /\ CASE op = "apply"   -> ApplyFound(cur, hunk, header, FALSE)
                                       /\ UNCHANGED index
                 [] op = "revert"  -> ApplyFound(cur, hunk, header, TRUE)
                                       /\ UNCHANGED index
                 [] op = "stage"   -> StageFound(cur, hunk, header, TRUE)
                                       /\ UNCHANGED doc
                 [] op = "unstage" -> StageFound(cur, hunk, header, FALSE)
                                       /\ UNCHANGED doc
            /\ call' = [call EXCEPT !.ran = TRUE, !.hunk = hunk, !.header = header]
        With(hunk) == Run(hunk, GetHeader(diff, cur, hunk))
    IN  /\ call.fn = "getHeader"
        /\ last.n < MaxOps
        /\ With(FindHunk(diff, cur))
        /\ UNCHANGED diff

ApplyHunkAt == \E cur \in HunkLinesOf(diff) : CommandAt(cur, "apply")

RevertHunkAt == \E cur \in HunkLinesOf(diff) : CommandAt(cur, "revert")

StageHunkAt == \E cur \in HunkLinesOf(diff) : CommandAt(cur, "stage")

UnstageHunkAt == \E cur \in HunkLinesOf(diff) : CommandAt(cur, "unstage")

NextFiles == ApplyHunkAt \/ RevertHunkAt \/ StageHunkAt \/ UnstageHunkAt

SpecFiles == InitFiles /\ [][NextFiles]_vars

\* The path of the file section a line of the diff view lies in
SectionPath(line) == IF line < call.second THEN FilePath ELSE OtherPath

\* C25 as stated: the header a command uses for a hunk is the "--- "/"+++ "
\* pair of the file section the hunk lies in, whatever the removed and added
\* lines of the hunks above it hold.
C25_HeaderOfSection ==
    (call.fn = "getHeader" /\ call.ran /\ call.hunk.ok) =>
        /\ call.header.ok
        /\ call.header.fromPath = SectionPath(call.hunk.line)
        /\ call.header.toPath = SectionPath(call.hunk.line)

\* The second half of C25 alone: when the nearest line above the hunk that
\* starts with "--- " is not followed by a line starting with "+++ ", the
\* command has no header and changes neither the document nor the index.
C25_NoHeaderNoPatch ==
    [][\A cur \in HunkLinesOf(diff) :
          LET start == ScanUp(diff, cur, <<"-", "-", "-", " ">>)
          IN  (/\ call'.ran /\ call'.hunk.ok /\ call'.hunk.line = cur
               /\ ~StartsWith(diff[start + 2], <<"+", "+", "+", " ">>))
              => (~call'.header.ok /\ doc' = doc /\ index' = index)]_vars

\* ---------------------------------------------------------------------
\* SpecLoop: find run step by step, one step for the statements before the
\* loop and one for each turn of the loop, on the inputs of SpecFind.
\* call.offs is the loop counter, call.pc the place find is at.

InitLoop ==
    /\ diff = <<>> /\ cursor = 0 /\ doc = <<>> /\ index = NoIndex
    /\ msg = NoMsg /\ last = NoLast
    /\ \E text \in SeqsOf(LineContent, 0, MaxText),
          lines \in SeqsOf(LineContent, 1, MaxTarget),
          srcLine \in -1..MaxTarget :
          call = [fn |-> "findLoop", text |-> text, lines |-> lines,
                  srcLine |-> srcLine, pc |-> "start", line |-> 0, offs |-> 0,
                  ret |-> 0]

\* The exit test of the loop with the end of the document one line further
PastBothEndsAndOne(lines, line, offs) ==
    line - offs < 0 /\ line + offs > Len(lines)

\* The exit test of the loop: upLine < 0 && downLine >= doc.numLines
PastBothEnds(lines, line, offs) ==
    line - offs < 0 /\ line + offs >= Len(lines)

\* const line = Math.min(...); if (this.matchesAtLine(doc, line)) return line;
FindStart ==
    /\ call.fn = "findLoop" /\ call.pc = "start"
    /\ LET line == Min(call.srcLine, Len(call.lines) - 1)
       IN  call' = IF MatchesAtLine(call.text, call.lines, line)
                   THEN [call EXCEPT !.pc = "done", !.line = line, !.ret = line]
                   ELSE [call EXCEPT !.pc = "loop", !.line = line, !.offs = 1]
    /\ UNCHANGED <<diff, cursor, doc, index, msg, last>>

\* One turn of for (let offs = 1; ; offs += 1)
FindTurn ==
    /\ call.fn = "findLoop" /\ call.pc = "loop"
    /\ LET upLine   == call.line - call.offs
           downLine == call.line + call.offs
       IN  call' =
             IF PastBothEnds(call.lines, call.line, call.offs)
             THEN [call EXCEPT !.pc = "done", !.ret = -1]
             ELSE IF MatchesAtLine(call.text, call.lines, upLine)
             THEN [call EXCEPT !.pc = "done", !.ret = upLine]
             ELSE IF MatchesAtLine(call.text, call.lines, downLine)
             THEN [call EXCEPT !.pc = "done", !.ret = downLine]
             ELSE [call EXCEPT !.offs = call.offs + 1]
    /\ UNCHANGED <<diff, cursor, doc, index, msg, last>>

NextLoop == FindStart \/ FindTurn

\* find runs on until it returns
SpecLoop == InitLoop /\ [][NextLoop]_vars /\ WF_vars(NextLoop)

\* The first offset d at which c - d < 0 and c + d >= lineCount, with
\* c = min(srcLine, lineCount - 1)
LastOffset ==
    LET c == Min(call.srcLine, Len(call.lines) - 1)
        n == Len(call.lines)
        Past(d) == c - d < 0 /\ c + d >= n
    IN  CHOOSE d \in 0..(2 * MaxTarget + 2) :
            Past(d) /\ \A e \in 0..(d - 1) : ~Past(e)

\* C26: find returns on every HunkText and every document; its loop counter
\* never passes the first offset d at which c - d < 0 and c + d >= lineCount,
\* and where nothing matches -1 is returned at that offset at the latest.
C26_LocatorTerminates ==
    /\ <>(call.fn = "findLoop" /\ call.pc = "done")
    /\ [](call.fn = "findLoop" =>
            /\ call.offs <= LastOffset
            /\ call.pc = "done" =>
                  /\ call.ret = Find([NoHunkText EXCEPT !.ok = TRUE,
                                          !.srcLine = call.srcLine,
                                          !.text = call.text], call.lines)
                  /\ call.ret = -1 <=> Occurrences(call.text, call.lines) = {})

\* C26 witness: srcLine = -1, a document of one line and a text that is not
\* in it: find gives up at offset 2, with upLine = -3 and downLine = 1
C26_Witness ==
    /\ call.fn = "findLoop" /\ call.pc = "done"
    /\ call.srcLine = -1 /\ Len(call.lines) = 1 /\ Len(call.text) = 1
    /\ call.ret = -1 /\ call.offs = 2 /\ LastOffset = 2

\* C26 witness: the empty text on a document of one line, found at once
C26_WitnessEmpty ==
    /\ call.fn = "findLoop" /\ call.pc = "done"
    /\ call.text = <<>> /\ Len(call.lines) = 1 /\ call.srcLine = 2
    /\ call.ret = 0 /\ call.offs = 0

\* ---------------------------------------------------------------------
\* C27 as stated: Stage followed by Unstage of the same hunk leaves the blob
\* of the index exactly as it was before the Stage, final line feed and line
\* terminators included, for any hunk and blob in which fromText is found.
C27_StageUnstageIdentity ==
    (/\ Len(last.ops) = 2
     /\ First.op = "stage" /\ First.res = "edited"
     /\ Latest.op = "unstage" /\ Latest.res = "edited")
        => Latest.after = First.before

\* ---------------------------------------------------------------------
\* SpecSplitTwo: splitHunk on a diff view of two hunks. The first hunk is
\* the one that is split; the second is any hunk git writes with both of its
\* counts in the header, that is with neither count 1.

FirstBody == << <<" ", "a">>, <<"-", "a">>, <<"+", "b">> >>

OtherBodies2 ==
    {b \in SplitBodies : CountedFor(b, "-") # 1 /\ CountedFor(b, "+") # 1}

\* What `git diff` prints for the file, and the number of lines the second
\* hunk takes, header and body
TwoHunkDiffs ==
    {[gitDiff |-> JoinWith(FileHeader \o GitHunk(1, FirstBody) \o GitHunk(5, b)
                               \o << <<>> >>, <<"\n">>),
      other |-> Len(b) + 1] : b \in OtherBodies2}

InitSplitTwo ==
    /\ call \in {[fn |-> "splitHunk", fragment |-> FileFragment,
                   gitDiff |-> d.gitDiff, other |-> d.other] : d \in TwoHunkDiffs}
    /\ diff = DocLines(ProvideDiff(call.fragment, call.gitDiff))
    /\ cursor = 0
    /\ doc = <<>>
    /\ index = NoIndex
    /\ msg = NoMsg
    /\ last = NoLast

SpecSplitTwo == InitSplitTwo /\ [][NextSplit]_vars

\* The lines of the second hunk in a text of the diff: the lines before the
\* empty last one
OtherHunkOf(lines) == SubSeq(lines, Len(lines) - call.other, Len(lines) - 1)

\* The line of the diff view the second hunk's header is on
OtherHunkAt == Len(diff) - 1 - call.other

\* C28 as stated: with a non-empty split set, a hunk that holds no split
\* marker and whose header '@@ -a,b +c,d @@' has the counts of its body is
\* shown as git wrote it, header and body, '\' lines in the body or not.
C28_OtherHunksAlone ==
    (/\ call.fn = "splitHunk"
     /\ OldSplits(call.fragment) # <<>>
     /\ \A k \in 1..Len(OldSplits(call.fragment)) :
            OldSplits(call.fragment)[k] < OtherHunkAt)
        => OtherHunkOf(diff) = OtherHunkOf(DocLines(call.gitDiff))

\* ---------------------------------------------------------------------
\* SpecApplyRace: doApplyHunk as the steps between its awaits. applyHunk and
\* revertHunk do not await doApplyHunk, so a command can be issued while an
\* earlier one is still under way.

InitApplyRace ==
    /\ diff \in RaceDiffs
    /\ cursor = 2
    /\ doc \in RaceTexts
    /\ index = NoIndex
    /\ msg = NoMsg
    /\ last = NoLast
    /\ call = [fn |-> "doApplyHunk", runs |-> <<>>]

\* A run of doApplyHunk: the await it is suspended at, this.hunk and the
\* header getSourceDoc reads when the command is issued, matchLine, and the
\* lines its range covered when the edit was made
ApplyRunOf(reverse, hunk, header) ==
    [pc |-> IF hunk.ok THEN "open" ELSE "done",
     res |-> IF hunk.ok THEN "none" ELSE "nohunk",
     reverse |-> reverse, hunk |-> hunk, header |-> header,
     matchLine |-> -1, replaced |-> <<>>]

\* applyHunk() / revertHunk() with the cursor on line cur: the function runs
\* up to `await this.getSourceDoc(hunk)` and the command returns
ApplyBegins(cur, reverse) ==
    LET With(hunk) == ApplyRunOf(reverse, hunk, GetHeader(diff, cur, hunk))
        Started(run) ==
            /\ call' = [call EXCEPT !.runs = Append(@, run)]
            /\ cursor' = IF run.hunk.ok THEN run.hunk.line ELSE cur
    IN  /\ call.fn = "doApplyHunk"
        /\ Len(call.runs) < MaxRuns
        /\ Started(With(FindHunk(diff, cur)))
        /\ UNCHANGED <<diff, doc, index, msg, last>>

ApplyHunkBegins == \E cur \in HunkLinesOf(diff) : ApplyBegins(cur, FALSE)

RevertHunkBegins == \E cur \in HunkLinesOf(diff) : ApplyBegins(cur, TRUE)

\* getSourceDoc of run i ends: the run looks for its text in the document
\* as it is now and either reports and returns or goes to the next hunk and
\* runs up to `await window.showTextDocument(doc, ...)`
GetSourceDocEnds ==
    \E i \in 1..Len(call.runs) :
        LET run == call.runs[i]
            Looked(res, matchLine) ==
                /\ call' = [call EXCEPT !.runs[i] =
                               [run EXCEPT !.pc = IF res = "edited" THEN "show"
                                                  ELSE "done",
                                           !.res = res,
                                           !.matchLine = matchLine]]
                /\ cursor' = IF res = "edited" THEN GotoHunk(diff, cursor, 1)
                             ELSE cursor
                /\ msg' = IF ApplyMsg(res) # NoMsg THEN ApplyMsg(res) ELSE msg
            Found(r) == Looked(r.res, r.match)
        IN  /\ call.fn = "doApplyHunk"
            /\ run.pc = "open"
            /\ IF ~run.header.ok THEN Looked("nodoc", -1)
               ELSE IF run.header.toPath # FilePath THEN Looked("threw", -1)
               ELSE Found(ApplyToDoc(run.hunk, doc, run.reverse))
            /\ UNCHANGED <<diff, doc, index, last>>

\* The lines of a text from line startLine up to, not with, line endLine
LinesInRange(text, startLine, endLine) ==
    SubSeq(DocLines(text), startLine + 1, Min(endLine, Len(DocLines(text))))

\* showTextDocument of run i ends: the range is made from the matchLine
\* found before the await and is replaced in the document as it is now
ShowTextDocumentEnds ==
    \E i \in 1..Len(call.runs) :
        LET run == call.runs[i]
            Edited(fromText, toText) ==
                /\ doc' = ReplaceRange(
                              doc, run.matchLine, run.matchLine + Len(fromText.text),
                              JoinWith(toText.text, <<"\n">>)
                                  \o (IF toText.missingNewline \/ Len(toText.text) = 0
                                      THEN <<>> ELSE <<"\n">>))
                /\ call' = [call EXCEPT
                               !.runs[i].pc = "done",
                               !.runs[i].replaced =
                                   LinesInRange(doc, run.matchLine,
                                                run.matchLine + Len(fromText.text))]
            With(sides) == Edited(sides.from, sides.to)
        IN  /\ call.fn = "doApplyHunk"
            /\ run.pc = "show"
            /\ With(Sides(run.hunk, run.reverse))
            /\ UNCHANGED <<diff, cursor, index, msg, last>>

NextApplyRace ==
    \/ ApplyHunkBegins
    \/ RevertHunkBegins
    \/ GetSourceDocEnds
    \/ ShowTextDocumentEnds

SpecApplyRace == InitApplyRace /\ [][NextApplyRace]_vars

\* C29 as stated: when doApplyHunk replaces its range, the lines the range
\* covers are the lines of the side it looked for, also when the document
\* was edited between the search and the replacement.
C29_NoCheckThenActGap ==
    call.fn = "doApplyHunk" =>
        \A i \in 1..Len(call.runs) :
            (call.runs[i].pc = "done" /\ call.runs[i].res = "edited") =>
                call.runs[i].replaced
                    = Sides(call.runs[i].hunk, call.runs[i].reverse).from.text

\* ---------------------------------------------------------------------
\* SpecReload: StGitDoc.reloadIndex as the steps between its awaits.
\* reload() and reloadIndexAndWorkTree() do not await reloadIndex, so a call
\* can start while an earlier one is under way. call.index is this.index,
\* the Index entry the StGit view shows: the run that made it and the state
\* of the git index `git diff-index` read for it. `index` is the git index.

ReloadTexts == {<<"a", "\n">>, <<"b", "\n">>, <<"a", "\n", "a", "\n">>}

InitReload ==
    /\ diff = <<>> /\ cursor = 0 /\ doc = <<>>
    /\ index \in {[stages |-> <<0>>, blob |-> b] : b \in ReloadTexts}
    /\ msg = NoMsg /\ last = NoLast
    /\ call = [fn |-> "reloadIndex", runs |-> <<>>,
               index |-> [by |-> 0, deltas |-> index]]

\* reloadIndex(): const index = new Index(), up to
\* `await index.updateFromOld(this.index)`
ReloadIndexBegins ==
    call' = [call EXCEPT !.runs = Append(@, [pc |-> "updateFromOld",
                                               deltas |-> NoIndex])]

\* reload(): reloadIndexAndWorkTree() calls reloadIndex() and returns
Reload ==
    /\ call.fn = "reloadIndex"
    /\ Len(call.runs) < MaxRuns
    /\ ReloadIndexBegins
    /\ UNCHANGED <<diff, cursor, doc, index, msg, last>>

\* The end of stageOrUnstageHunk: `git update-index` has ended, the index
\* entry holds the new contents, and reloadIndexAndWorkTree() is called
StageEnds ==
    /\ call.fn = "reloadIndex"
    /\ Len(call.runs) < MaxRuns
    /\ \E data \in ReloadTexts :
          /\ data # index.blob
          /\ index' = UpdateIndex(index, data)
    /\ ReloadIndexBegins
    /\ UNCHANGED <<diff, cursor, doc, msg, last>>

\* updateFromOld of run i ends (both entries are expanded: nothing is
\* fetched for it); fetchDetails starts `git diff-index --cached HEAD`
UpdateFromOldEnds ==
    \E i \in 1..Len(call.runs) :
        /\ call.fn = "reloadIndex"
        /\ call.runs[i].pc = "updateFromOld"
        /\ call' = [call EXCEPT !.runs[i].pc = "diff-index"]
        /\ UNCHANGED <<diff, cursor, doc, index, msg, last>>

\* `git diff-index` of run i reads the git index
DiffIndexReads ==
    \E i \in 1..Len(call.runs) :
        /\ call.fn = "reloadIndex"
        /\ call.runs[i].pc = "diff-index"
        /\ call' = [call EXCEPT !.runs[i].pc = "fetchDetails",
                                !.runs[i].deltas = index]
        /\ UNCHANGED <<diff, cursor, doc, index, msg, last>>

\* `await index.fetchDetails()` of run i ends: this.index = index
FetchDetailsEnds ==
    \E i \in 1..Len(call.runs) :
        /\ call.fn = "reloadIndex"
        /\ call.runs[i].pc = "fetchDetails"
        /\ call' = [call EXCEPT !.runs[i].pc = "done",
                                !.index = [by |-> i, deltas |-> call.runs[i].deltas]]
        /\ UNCHANGED <<diff, cursor, doc, index, msg, last>>

NextReload ==
    \/ Reload
    \/ StageEnds
    \/ UpdateFromOldEnds
    \/ DiffIndexReads
    \/ FetchDetailsEnds

SpecReload == InitReload /\ [][NextReload]_vars

\* C30 as stated: after two calls of reloadIndex have both finished, the
\* Index entry shown is the one the call that started last has fetched,
\* never what the earlier call has fetched.
C30_NewestReloadShown ==
    (/\ call.fn = "reloadIndex"
     /\ Len(call.runs) = 2
     /\ \A i \in 1..2 : call.runs[i].pc = "done")
        => /\ call.index.by = 2
           /\ call.index.deltas = call.runs[2].deltas

====
